---- MODULE Spec2Model ----
(***************************************************************************)
(* Circuit City client layer: the three-partition service worker          *)
(* (network-first for documents, stale-while-revalidate for static and    *)
(* CDN assets), the cc-v4 service worker, and the scanner's camera        *)
(* session (startScan / stopScan).                                        *)
(***************************************************************************)
EXTENDS Integers, Sequences, FiniteSets, TLC

VARIABLES
    \* ---- three-partition service worker ----
    swState,        \* lifecycle position of the worker
    claimed,        \* self.clients.claim() has resolved
    cacheKeys,      \* CacheStorage: names of the existing caches
    caches,         \* CacheStorage: name -> (url -> stored response)
    pendingDeletes, \* caches.delete(k) calls of activate that have not settled
    handlers,       \* fetch handlers whose network fetch has not settled
    puts,           \* cachePut calls that have not settled
    netSeq,         \* number of responses the network has produced
    delivery,       \* what a respondWith promise settled to in the last step
    passedThrough,  \* the request of a fetch event that returned without respondWith in the last step
    lastDocOk,      \* url -> last ok/opaque network response of a document fetch
    lastDocStored,  \* url -> last response a document fetch wrote to the pages cache
    \* ---- scanner.js: module state ----
    stream,           \* the MediaStream bound by openStream (0: null)
    track,            \* its first video track, named by its stream (0: null)
    detector,         \* a BarcodeDetector is set
    zxingControls,    \* "null", or the state of the ZXing decode it controls
    stopRequested,
    currentDeviceId,
    boundDevice,      \* the device the stream bound by openStream comes from
    switches,         \* calls of switchCamera that have not settled
    torches,          \* calls of tryTorch that await applyConstraints
    returned,         \* what a switchCamera or tryTorch promise settled to in the last step
    \* ---- scanner.js: the page and the browser around it ----
    hasBarcodeDetector, \* "BarcodeDetector" in window
    hasMediaDevices,    \* navigator.mediaDevices.getUserMedia exists
    cams,               \* the video inputs enumerateDevices reports
    liveStreams,        \* streams granted by getUserMedia that have a live track
    startCalls,         \* calls of startScan so far
    starts,             \* calls of startScan that have not settled: position -> how many
    loops,              \* native detection loops that have not returned: position -> how many
    decodes,            \* ZXing decodes that have not been stopped
    settled,            \* how a startScan promise settled in the last step
    statusText,         \* statusEl.textContent
    \* ---- scanner.js: detections ----
    scene,              \* the codes in front of the camera
    allowMultiple,      \* the options the page passes to startScan
    continueAfterResult,
    startBudget,        \* how many times the page calls startScan
    seenMap,            \* candidates in insertion order, each with the time since it was seen
    picker,             \* the candidates the picker overlay lists (<<>>: no overlay)
    resulted,           \* onResult was called since startScan was last called
    resultCall,         \* the call of onResult made in the last step
    \* ---- cc-scanner.js ----
    hidden,             \* document.hidden
    ccStream,           \* stream (track is its first video track; 0: null)
    ccScanning,         \* scanning
    ccStarts,           \* calls of start that have not returned: position -> how many
    ccLive,             \* streams granted to cc-scanner that have a live track
    ccStartCalls,       \* calls of start so far
    ccFrames,           \* animation-frame callbacks of loop that are pending
    ccRafId,            \* rafId names a pending callback
    ccDetects,          \* detect calls of loop that have not settled
    ccSubmits,          \* form.requestSubmit() calls of onDetect since start was last called
    \* ---- the global search box (part_003) ----
    qValue,             \* the trimmed value of the input at its last input event
    inFlight,           \* the request the AbortController in inFlight belongs to (0: undefined)
    searches,           \* the listener calls that await fetch or r.json()
    boxHidden,          \* the results box has the class hidden
    boxHTML,            \* the query whose results the box holds ("": innerHTML is empty)
    \* ---- the mobile drawer (static/js/mobile.js) ----
    drawerOpen,         \* body[data-drawer] = "open"
    bodyLocked,         \* document.body.style holds the scroll lock (position: fixed, ...)
    scrollY,            \* window.scrollY
    savedScrollY,       \* the variable savedScrollY
    mobile,             \* isMobile(): the viewport is at most 992px wide
    openedJustNow,      \* Date.now() - openedAt < 250
    resizeFrame,        \* the animation frame requested by the resize listener is pending
    \* ---- the theme rotator (static/inventory/dashboard.js) ----
    current,            \* the variable current, also data-theme and localStorage cc-theme
    auto,               \* the variable auto, also localStorage cc-theme-rotate
    timer,              \* the variable timer: an interval id, 0 for null
    intervals,          \* the intervals set and not cleared
    reduced,            \* prefers-reduced-motion: reduce matched when the script ran
    pageHidden,         \* document.hidden
    pageLoaded          \* the load event of the window has fired

swVars == <<swState, claimed, cacheKeys, caches, pendingDeletes, handlers, puts,
            netSeq, delivery, passedThrough, lastDocOk, lastDocStored>>

scanVars == <<stream, track, boundDevice, detector, zxingControls, stopRequested, currentDeviceId,
              switches, torches, returned,
              hasBarcodeDetector, hasMediaDevices, cams, liveStreams, startCalls, starts, loops, decodes, settled, statusText,
              scene, allowMultiple, continueAfterResult, startBudget,
              seenMap, picker, resulted, resultCall,
              hidden, ccStream, ccScanning, ccStarts, ccLive, ccStartCalls,
              ccFrames, ccRafId, ccDetects, ccSubmits,
              qValue, inFlight, searches, boxHidden, boxHTML,
              drawerOpen, bodyLocked, scrollY, savedScrollY, mobile, openedJustNow,
              resizeFrame,
              current, auto, timer, intervals, reduced, pageHidden, pageLoaded>>

\* the page's parameters: no operation changes them
optVars == <<scene, allowMultiple, continueAfterResult, startBudget>>

\* the calls of the helpers switchCamera and tryTorch
helperVars == <<switches, torches>>

\* the detection state onResult calls aside
foundVars == <<seenMap, picker, resulted>>

\* the state of scanner.js, what the last step settled or called aside
scannerVars == <<stream, track, boundDevice, detector, zxingControls, stopRequested, currentDeviceId,
                 helperVars,
                 hasBarcodeDetector, hasMediaDevices, cams, liveStreams, startCalls,
                 starts, loops, decodes, statusText, optVars, foundVars>>

ccVars == <<hidden, ccStream, ccScanning, ccStarts, ccLive, ccStartCalls,
            ccFrames, ccRafId, ccDetects, ccSubmits>>

searchVars == <<qValue, inFlight, searches, boxHidden, boxHTML>>

\* the page scripts other than the scanners
drawerVars == <<drawerOpen, bodyLocked, scrollY, savedScrollY, mobile, openedJustNow,
                resizeFrame>>

themeVars == <<current, auto, timer, intervals, reduced, pageHidden, pageLoaded>>

uiVars == <<searchVars, drawerVars, themeVars>>

vars == <<swVars, scanVars>>

\* ---------------------------------------------------------------------
\* Bounds
\* ---------------------------------------------------------------------
MaxTasks == 2   \* fetch handlers and cache writes in flight at the same time
MaxNet == 2     \* responses the network produces in one run
MaxStartCalls == 2  \* calls of startScan in one run
MaxSessions == 1    \* calls of startScan in one run that follows the detections
MaxCcStarts == 2    \* calls of start of cc-scanner.js in one run
MaxCcDetects == 2   \* detect calls of the loop of cc-scanner.js in flight at the same time
MaxSwitchCalls == 1 \* calls of switchCamera in flight at the same time
MaxTorchCalls == 1  \* calls of tryTorch awaiting applyConstraints at the same time
MaxSearches == 2    \* search requests that have not settled at the same time
MaxScroll == 3      \* the largest window.scrollY the page can be scrolled to

\* ---------------------------------------------------------------------
\* Requests, urls, responses
\* ---------------------------------------------------------------------
SelfHost == <<"circuitcity", "app">>
CdnHost == <<"cdn", "jsdelivr", "net">>

UrlQ(host, path, query) == [host |-> host, path |-> path, query |-> query]

Url(host, path) == UrlQ(host, path, <<>>)

RootUrl == Url(SelfHost, <<>>)

PRECACHE_ASSETS ==
    << RootUrl,
       Url(SelfHost, <<"static", "css", "tokens.css">>),
       Url(SelfHost, <<"static", "css", "app.css">>),
       Url(SelfHost, <<"static", "css", "polish.css">>),
       Url(SelfHost, <<"static", "js", "app.js">>),
       Url(SelfHost, <<"static", "manifest.webmanifest">>),
       Url(SelfHost, <<"static", "favicon.ico">>) >>

PrecacheUrls == {PRECACHE_ASSETS[i] : i \in 1..Len(PRECACHE_ASSETS)}

OrdersUrl == Url(SelfHost, <<"orders">>)
AppCssUrl == Url(SelfHost, <<"static", "css", "app.css">>)
CdnUrl == Url(CdnHost, <<"npm", "bootstrap.min.css">>)
CdnJsUrl == Url(CdnHost, <<"npm", "bootstrap.bundle.min.js">>)
NoCacheUrl == UrlQ(SelfHost, <<"static", "css", "app.css">>, <<"nocache">>)

\* the pre-cache list of the cc-v4 worker
STATIC_ASSETS ==
    << Url(SelfHost, <<"static", "css", "app.css">>),
       Url(SelfHost, <<"static", "css", "polish.css">>),
       Url(SelfHost, <<"static", "js", "app.js">>),
       CdnUrl,
       CdnJsUrl >>

Req(method, mode, accept, url) ==
    [method |-> method, mode |-> mode, accept |-> accept, url |-> url]

\* The requests the pages issue.
Requests ==
    { Req("GET", "navigate", <<"text/html", "application/xhtml+xml">>, OrdersUrl),
      Req("GET", "no-cors", <<"text/css">>, AppCssUrl),
      Req("GET", "no-cors", <<"text/css">>, CdnUrl),
      Req("GET", "cors", <<"application/json">>, OrdersUrl),
      Req("POST", "cors", <<"application/json">>, OrdersUrl) }

\* The requests the pages issue under the cc-v4 worker.
RequestsV4 ==
    Requests \cup {Req("GET", "no-cors", <<"text/css">>, NoCacheUrl)}

Urls ==
    PrecacheUrls \cup {STATIC_ASSETS[i] : i \in 1..Len(STATIC_ASSETS)}
                 \cup {r.url : r \in RequestsV4}

\* A response: its type, its ok flag and the content the server sent.
Response(type, ok, body) == [type |-> type, ok |-> ok, body |-> body]

\* JavaScript undefined / null: no response.
Undefined == Response("undefined", FALSE, 0)

\* Response.error()
ResponseError == Response("error", FALSE, 0)

IsResponse(x) == x # Undefined

\* ---------------------------------------------------------------------
\* Cache names
\* ---------------------------------------------------------------------
STATIC_CACHE == "cc-v3-2025-08-22-static"
PAGE_CACHE == "cc-v3-2025-08-22-pages"
CDN_CACHE == "cc-v3-2025-08-22-cdn"

\* Partitions left behind by an earlier deploy.
OldCaches == {"cc-v2-static", "cc-v2-pages"}

CurrentCaches == {STATIC_CACHE, PAGE_CACHE, CDN_CACHE}

\* the cache of the cc-v4 worker
CACHE == "cc-v4"

CacheNames == CurrentCaches \cup OldCaches \cup {CACHE}

EmptyCache == [u \in Urls |-> Undefined]


\* ---------------------------------------------------------------------
\* Request classification
\* ---------------------------------------------------------------------
\* variant: every method counts as GET
isGETAny(req) == TRUE

isGET(req) == req.method = "GET"

sameOrigin(url) == url.host = SelfHost

isDoc(req) ==
    \/ req.mode = "navigate"
    \/ \E i \in 1..Len(req.accept) : req.accept[i] = "text/html"

isStatic(url) ==
    /\ sameOrigin(url)
    /\ Len(url.path) >= 2
    /\ url.path[1] = "static"

CdnDomains ==
    { <<"jsdelivr", "net">>, <<"gstatic", "com">>, <<"googleapis", "com">>,
      <<"unpkg", "com">>, <<"bootstrapcdn", "com">> }

isCDN(url) ==
    LET n == Len(url.host)
    IN  n >= 2 /\ SubSeq(url.host, n - 1, n) \in CdnDomains

\* variant: the static and CDN tests come before the document test
RouteAssetsFirst(req) ==
    IF isStatic(req.url) THEN [strategy |-> "swr", cacheName |-> STATIC_CACHE]
    ELSE IF isCDN(req.url) THEN [strategy |-> "swr", cacheName |-> CDN_CACHE]
    ELSE IF isDoc(req) THEN [strategy |-> "networkFirst", cacheName |-> PAGE_CACHE]
    ELSE [strategy |-> "default", cacheName |-> "none"]

\* The strategy and the partition the fetch listener routes a GET request to.
Route(req) ==
    IF isDoc(req) THEN [strategy |-> "networkFirst", cacheName |-> PAGE_CACHE]
    ELSE IF isStatic(req.url) THEN [strategy |-> "swr", cacheName |-> STATIC_CACHE]
    ELSE IF isCDN(req.url) THEN [strategy |-> "swr", cacheName |-> CDN_CACHE]
    ELSE [strategy |-> "default", cacheName |-> "none"]

\* ---------------------------------------------------------------------
\* The platform: network and CacheStorage
\* ---------------------------------------------------------------------
\* The responses fetch(req) can resolve to when the server's content is body.
NetResponses(req, body) ==
    IF sameOrigin(req.url)
    THEN {Response("basic", TRUE, body), Response("basic", FALSE, body)}
    ELSE IF req.mode = "no-cors"
    THEN {Response("opaque", FALSE, body)}
    ELSE {Response("cors", TRUE, body), Response("cors", FALSE, body)}

\* caches.open(name): creates the cache when it does not exist.
Opened(name) == cacheKeys \cup {name}

\* cache.match(request, {ignoreVary: true})
cacheMatch(name, url) == caches[name][url]

\* caches.match(request): the entry of the first cache, in creation order,
\* that has one. The creation order is not kept: the result is any of the
\* entries the existing caches hold, or undefined when none holds one.
cachesMatch(url) ==
    LET found == {caches[n][url] : n \in {m \in cacheKeys : IsResponse(caches[m][url])}}
    IN  IF found = {} THEN {Undefined} ELSE found

\* ---------------------------------------------------------------------
\* cachePut: the condition under which a response is written
\* ---------------------------------------------------------------------
\* variant: every response is written
cachePutAcceptsAny(response) == TRUE

cachePutAccepts(response) == response.ok \/ response.type = "opaque"

\* The cache writes a call cachePut(cacheName, request, response) leaves pending.
cachePut(cacheName, request, response) ==
    IF cachePutAccepts(response)
    THEN {[cacheName |-> cacheName, url |-> request.url, response |-> response]}
    ELSE {}

\* ---------------------------------------------------------------------
\* Initial state: the install handler has run; an earlier deploy (or an
\* earlier run of this version) may have left partitions behind.
\* ---------------------------------------------------------------------
Stale == Response("basic", TRUE, 0)

LeftBehind(name) ==
    IF name \in {"cc-v2-static", STATIC_CACHE}
    THEN [u \in Urls |-> IF u \in {RootUrl, AppCssUrl} THEN Stale ELSE Undefined]
    ELSE IF name \in {"cc-v2-pages", PAGE_CACHE}
    THEN [u \in Urls |-> IF u = OrdersUrl THEN Stale ELSE Undefined]
    ELSE [u \in Urls |-> IF u = CdnUrl THEN Response("opaque", FALSE, 0) ELSE Undefined]

\* no request
NoRequest == Req("none", "none", <<>>, RootUrl)

NoDelivery ==
    [req |-> NoRequest, strategy |-> "none",
     net |-> Undefined, cached |-> Undefined, out |-> Undefined]

\* no startScan promise settled in the last step
NoneSettled == "none"

\* no switchCamera or tryTorch promise settled in the last step
NoReturn == [fn |-> "none", value |-> "none", live |-> FALSE, torch |-> FALSE, applied |-> FALSE]

\* no call of onResult was made in the last step
NoCall == [value |-> "none", multiple |-> <<>>, live |-> {}, decoding |-> {},
           stopped |-> FALSE, picker |-> <<>>, by |-> "none"]

\* the awaits of start in cc-scanner.js
CcPcs == {"gum1", "gum2", "play"}

\* the awaits of startScan, and of the native loop
StartPcs == {"temp", "enumerate", "gum1", "play1", "gum2", "play2", "zxload", "zxdecode"}

LoopPcs == {"detect", "frame"}

\* scanner.js as loaded (lines 23-35), in a browser with the given features
ScannerLoaded(barcodeDetector, mediaDevices, videoInputs) ==
    /\ stream = 0
    /\ track = 0
    /\ detector = FALSE
    /\ zxingControls = 0
    /\ stopRequested = FALSE
    /\ currentDeviceId = "null"
    /\ boundDevice = "null"
    /\ switches = {}
    /\ torches = {}
    /\ returned = NoReturn
    /\ hasBarcodeDetector = barcodeDetector
    /\ hasMediaDevices = mediaDevices
    /\ cams = videoInputs
    /\ liveStreams = {}
    /\ startCalls = 0
    /\ starts = [pc \in StartPcs |-> 0]
    /\ loops = [pc \in LoopPcs |-> 0]
    /\ decodes = {}
    /\ settled = NoneSettled
    /\ statusText = ""
    /\ seenMap = <<>>
    /\ picker = <<>>
    /\ resulted = FALSE
    /\ resultCall = NoCall

\* the options and the surroundings the page gives the scanner
PageOptions(codes, multiple, continue, budget) ==
    /\ scene = codes
    /\ allowMultiple = multiple
    /\ continueAfterResult = continue
    /\ startBudget = budget

\* cc-scanner.js as loaded (lines 9-14), the page visible
CcScannerLoaded ==
    /\ hidden = FALSE
    /\ ccStream = 0
    /\ ccScanning = FALSE
    /\ ccStarts = [pc \in CcPcs |-> 0]
    /\ ccLive = {}
    /\ ccStartCalls = 0
    /\ ccFrames = 0
    /\ ccRafId = FALSE
    /\ ccDetects = 0
    /\ ccSubmits = 0

\* the global search box as the page is loaded: nothing typed, the box hidden
SearchLoaded ==
    /\ qValue = ""
    /\ inFlight = 0
    /\ searches = {}
    /\ boxHidden = TRUE
    /\ boxHTML = ""

\* the page scripts other than the scanners, as loaded
\* mobile.js after setupDrawer on a page at the top: the drawer closed, no
\* lock, savedScrollY = 0, openedAt = 0
DrawerLoaded(isMobile) ==
    /\ drawerOpen = FALSE
    /\ bodyLocked = FALSE
    /\ scrollY = 0
    /\ savedScrollY = 0
    /\ mobile = isMobile
    /\ openedJustNow = FALSE
    /\ resizeFrame = FALSE

THEMES == <<"style-1", "style-2", "style-3">>

\* the themes the toggle of part_005 stores under the same key cc-theme
ToggleThemes == {"light", "dark"}

\* the rotator after its script ran: apply(current) with the stored theme,
\* auto as stored, timer = null
RotatorLoaded(storedTheme, storedRotate, reducedMotion, isHidden) ==
    /\ current = storedTheme
    /\ auto = storedRotate
    /\ timer = 0
    /\ intervals = {}
    /\ reduced = reducedMotion
    /\ pageHidden = isHidden
    /\ pageLoaded = FALSE

UiLoaded ==
    /\ SearchLoaded
    /\ DrawerLoaded(TRUE)
    /\ RotatorLoaded(THEMES[1], FALSE, FALSE, FALSE)

\* the worker script as registered, with the partitions S left behind
WorkerRegistered(S) ==
    /\ swState = "installing"
    /\ claimed = FALSE
    /\ cacheKeys = S
    /\ caches = [n \in CacheNames |-> IF n \in S THEN LeftBehind(n) ELSE EmptyCache]
    /\ lastDocOk = IF PAGE_CACHE \in S THEN LeftBehind(PAGE_CACHE) ELSE EmptyCache
    /\ lastDocStored = IF PAGE_CACHE \in S THEN LeftBehind(PAGE_CACHE) ELSE EmptyCache
    /\ pendingDeletes = {}
    /\ handlers = {}
    /\ puts = {}
    /\ netSeq = 0
    /\ delivery = NoDelivery
    /\ passedThrough = NoRequest

\* no respondWith promise settles in this step
Quiet == delivery' = NoDelivery /\ passedThrough' = NoRequest

InitSW ==
    /\ \E S \in SUBSET (OldCaches \cup {PAGE_CACHE}) : WorkerRegistered(S)
    /\ ScannerLoaded(TRUE, TRUE, <<>>)
    /\ PageOptions({}, TRUE, FALSE, 0)
    /\ CcScannerLoaded
    /\ UiLoaded

\* ---------------------------------------------------------------------
\* install
\* ---------------------------------------------------------------------
\* caches.open(STATIC_CACHE)
Install_open ==
    /\ swState = "installing"
    /\ cacheKeys' = Opened(STATIC_CACHE)
    /\ swState' = "precaching"
    /\ Quiet
    /\ UNCHANGED <<claimed, caches, pendingDeletes, handlers, puts, netSeq, lastDocOk, lastDocStored,
                   scanVars>>

\* cache.addAll(list) under the outcome of each asset's fetch: every asset is
\* stored when every fetch returned an ok response, nothing is stored otherwise.
addAll(cache, list, outcome, body) ==
    IF \A i \in 1..Len(list) : outcome[i] = "ok"
    THEN [u \in Urls |->
            IF \E i \in 1..Len(list) : list[i] = u
            THEN Response(IF sameOrigin(u) THEN "basic" ELSE "cors", TRUE, body)
            ELSE cache[u]]
    ELSE cache

\* cache.addAll(PRECACHE_ASSETS) settles; skipWaiting() was called, so an
\* installed worker goes on to activate.
Install_addAll ==
    /\ swState = "precaching"
    /\ netSeq < MaxNet
    /\ \E outcome \in [1..Len(PRECACHE_ASSETS) -> {"ok", "bad", "fail"}] :
          /\ caches' = [caches EXCEPT ![STATIC_CACHE] =
                            addAll(@, PRECACHE_ASSETS, outcome, netSeq + 1)]
          /\ swState' = IF \A i \in 1..Len(PRECACHE_ASSETS) : outcome[i] = "ok"
                        THEN "installed" ELSE "redundant"
    /\ netSeq' = netSeq + 1
    /\ Quiet
    /\ UNCHANGED <<claimed, cacheKeys, pendingDeletes, handlers, puts, lastDocOk, lastDocStored,
                   scanVars>>

\* ---------------------------------------------------------------------
\* activate
\* ---------------------------------------------------------------------
\* variant: the pages partition is missing from the keep set
ActivateKeepNoPages == {STATIC_CACHE, CDN_CACHE}

\* const keep = new Set([STATIC_CACHE, PAGE_CACHE, CDN_CACHE]);
ActivateKeep == {STATIC_CACHE, PAGE_CACHE, CDN_CACHE}

\* keys = await caches.keys(); keys.map(k => keep.has(k) ? null : caches.delete(k))
Activate_keys ==
    /\ swState = "installed"
    /\ pendingDeletes' = cacheKeys \ ActivateKeep
    /\ swState' = "activating"
    /\ Quiet
    /\ UNCHANGED <<claimed, cacheKeys, caches, handlers, puts, netSeq, lastDocOk, lastDocStored,
                   scanVars>>

\* one caches.delete(k) settles
Activate_delete(k) ==
    /\ swState = "activating"
    /\ k \in pendingDeletes
    /\ pendingDeletes' = pendingDeletes \ {k}
    /\ cacheKeys' = cacheKeys \ {k}
    /\ caches' = [caches EXCEPT ![k] = EmptyCache]
    /\ Quiet
    /\ UNCHANGED <<swState, claimed, handlers, puts, netSeq, lastDocOk, lastDocStored,
                   scanVars>>

\* await Promise.all(...) is over; await self.clients.claim()
ActivateReady == pendingDeletes = {}

Activate_claim ==
    /\ swState = "activating"
    /\ ActivateReady
    /\ claimed' = TRUE
    /\ swState' = "activated"
    /\ Quiet
    /\ UNCHANGED <<cacheKeys, caches, pendingDeletes, handlers, puts, netSeq, lastDocOk, lastDocStored,
                   scanVars>>

\* ---------------------------------------------------------------------
\* JavaScript values the handlers pass around
\* ---------------------------------------------------------------------
\* fetch() rejected
NetworkError == Response("network-error", FALSE, 0)

\* the promise returned by caches.match('/'), not awaited
RootMatchPromise == Response("promise", FALSE, 0)

\* undefined and null are falsy; a Response and a Promise are truthy
Truthy(x) == x # Undefined

\* a || b || c
Or3(a, b, c) == IF Truthy(a) THEN a ELSE IF Truthy(b) THEN b ELSE c

Handler(req, route) ==
    [req |-> req, strategy |-> route.strategy, cacheName |-> route.cacheName,
     pc |-> IF route.strategy = "swr" THEN "match" ELSE "fetch",
     cached |-> Undefined, responded |-> FALSE]

At(h, pc) == [h EXCEPT !.pc = pc]

\* the promise given to respondWith settles to out
Deliver(h, net, cached, out) ==
    /\ delivery' = [req |-> h.req, strategy |-> h.strategy, net |-> net,
                         cached |-> cached, out |-> out]
    /\ passedThrough' = NoRequest

Tasks == Cardinality(handlers) + Cardinality(puts)

\* ---------------------------------------------------------------------
\* The fetch listener
\* ---------------------------------------------------------------------
\* A non-GET request returns before respondWith; a GET request starts the
\* strategy of its class.
FetchEvent(req) ==
    /\ swState = "activated"
    /\ Tasks < MaxTasks
    /\ handlers' = IF isGET(req) THEN handlers \cup {Handler(req, Route(req))}
                   ELSE handlers
    /\ delivery' = NoDelivery
    /\ passedThrough' = IF isGET(req) THEN NoRequest ELSE req
    /\ UNCHANGED <<swState, claimed, cacheKeys, caches, pendingDeletes, puts, netSeq, lastDocOk, lastDocStored,
                   scanVars>>

\* ---------------------------------------------------------------------
\* networkFirst
\* ---------------------------------------------------------------------
\* variant: a stored snapshot is preferred to the network response
networkFirstResolvedCacheFirst(h, res) ==
    IF IsResponse(cacheMatch(h.cacheName, h.req.url))
    THEN cacheMatch(h.cacheName, h.req.url)
    ELSE res

\* return res.clone();
networkFirstResolved(h, res) == res

\* const res = await fetch(request); cachePut(cacheName, request, res);
\* return res.clone();
networkFirst_fetched(h, res) ==
    /\ h.strategy = "networkFirst" /\ h.pc = "fetch"
    /\ netSeq < MaxNet
    /\ res \in NetResponses(h.req, netSeq + 1)
    /\ netSeq' = netSeq + 1
    /\ puts' = puts \cup cachePut(h.cacheName, h.req, res)
    /\ Deliver(h, res, Undefined, networkFirstResolved(h, res))
    /\ handlers' = handlers \ {h}
    /\ lastDocOk' = IF res.ok \/ res.type = "opaque"
                    THEN [lastDocOk EXCEPT ![h.req.url] = res]
                    ELSE lastDocOk
    /\ UNCHANGED <<swState, claimed, cacheKeys, caches, pendingDeletes, lastDocStored,
                   scanVars>>

\* fetch rejects: the catch block starts
networkFirst_failed(h) ==
    /\ h.strategy = "networkFirst" /\ h.pc = "fetch"
    /\ handlers' = (handlers \ {h}) \cup {At(h, "match")}
    /\ Quiet
    /\ UNCHANGED <<swState, claimed, cacheKeys, caches, pendingDeletes, puts, netSeq, lastDocOk, lastDocStored,
                   scanVars>>

\* variant: the root document is preferred to the snapshot
networkFirstCatchRootFirst(cached) == Or3(RootMatchPromise, cached, ResponseError)

\* variant: no fallback to the root document
networkFirstCatchNoRoot(cached) == Or3(cached, ResponseError, ResponseError)

\* return cached || caches.match('/') || Response.error();
networkFirstCatch(cached) == Or3(cached, RootMatchPromise, ResponseError)

\* const cache = await caches.open(cacheName);
\* const cached = await cache.match(request, {ignoreVary: true}); return ...
networkFirst_match(h) ==
    /\ h.strategy = "networkFirst" /\ h.pc = "match"
    /\ cacheKeys' = Opened(h.cacheName)
    /\ LET cached == cacheMatch(h.cacheName, h.req.url)
           ret == networkFirstCatch(cached)
       IN  IF ret = RootMatchPromise
           THEN /\ handlers' = (handlers \ {h}) \cup {At(h, "root")}
                /\ Quiet
           ELSE /\ handlers' = handlers \ {h}
                /\ Deliver(h, NetworkError, cached, ret)
    /\ UNCHANGED <<swState, claimed, caches, pendingDeletes, puts, netSeq,
                   lastDocOk, lastDocStored,
                   scanVars>>

\* the returned caches.match('/') promise settles, and networkFirst with it
networkFirst_root(h) ==
    /\ h.strategy = "networkFirst" /\ h.pc = "root"
    /\ handlers' = handlers \ {h}
    /\ \E root \in cachesMatch(RootUrl) : Deliver(h, NetworkError, Undefined, root)
    /\ UNCHANGED <<swState, claimed, cacheKeys, caches, pendingDeletes, puts, netSeq,
                   lastDocOk, lastDocStored,
                   scanVars>>

\* ---------------------------------------------------------------------
\* swr
\* ---------------------------------------------------------------------
\* variant: the fetch is awaited before anything is returned
swrWaitsAlways(cached) == TRUE

\* cached || (await fetchPromise) ...: the fetch is awaited only when cached
\* is falsy
swrWaits(cached) == ~Truthy(cached)

\* variant: the null of a failed fetch is returned
swrResultNull(cached, fetched) == Or3(cached, fetched, Undefined)

\* return cached || (await fetchPromise) || cached || Response.error();
swrResult(cached, fetched) == Or3(cached, fetched, Or3(cached, ResponseError, ResponseError))

\* const cache = await caches.open(cacheName);
\* const cached = await cache.match(...); the fetch is issued; a cached
\* response is returned at once, the fetch goes on.
swr_match(h) ==
    /\ h.strategy = "swr" /\ h.pc = "match"
    /\ cacheKeys' = Opened(h.cacheName)
    /\ LET cached == cacheMatch(h.cacheName, h.req.url)
       IN  /\ handlers' = (handlers \ {h}) \cup
                 {[h EXCEPT !.pc = "fetch", !.cached = cached,
                            !.responded = ~swrWaits(cached)]}
           /\ IF ~swrWaits(cached)
              THEN Deliver(h, Undefined, cached, swrResult(cached, Undefined))
              ELSE Quiet
    /\ UNCHANGED <<swState, claimed, caches, pendingDeletes, puts, netSeq,
                   lastDocOk, lastDocStored,
                   scanVars>>

\* fetchPromise: .then((res) => { cachePut(cacheName, request, res); return res.clone(); })
swr_fetched(h, res) ==
    /\ h.strategy = "swr" /\ h.pc = "fetch"
    /\ netSeq < MaxNet
    /\ res \in NetResponses(h.req, netSeq + 1)
    /\ netSeq' = netSeq + 1
    /\ puts' = puts \cup cachePut(h.cacheName, h.req, res)
    /\ handlers' = handlers \ {h}
    /\ IF h.responded THEN Quiet
       ELSE Deliver(h, res, h.cached, swrResult(h.cached, res))
    /\ UNCHANGED <<swState, claimed, cacheKeys, caches, pendingDeletes,
                   lastDocOk, lastDocStored,
                   scanVars>>

\* fetchPromise: .catch(() => null)
swr_failed(h) ==
    /\ h.strategy = "swr" /\ h.pc = "fetch"
    /\ handlers' = handlers \ {h}
    /\ IF h.responded THEN Quiet
       ELSE Deliver(h, NetworkError, h.cached, swrResult(h.cached, Undefined))
    /\ UNCHANGED <<swState, claimed, cacheKeys, caches, pendingDeletes, puts, netSeq,
                   lastDocOk, lastDocStored,
                   scanVars>>

\* ---------------------------------------------------------------------
\* default branch of the fetch listener
\* ---------------------------------------------------------------------
\* const res = await fetch(request); return res;
default_fetched(h, res) ==
    /\ h.strategy = "default" /\ h.pc = "fetch"
    /\ netSeq < MaxNet
    /\ res \in NetResponses(h.req, netSeq + 1)
    /\ netSeq' = netSeq + 1
    /\ handlers' = handlers \ {h}
    /\ Deliver(h, res, Undefined, res)
    /\ UNCHANGED <<swState, claimed, cacheKeys, caches, pendingDeletes, puts,
                   lastDocOk, lastDocStored,
                   scanVars>>

default_failed(h) ==
    /\ h.strategy = "default" /\ h.pc = "fetch"
    /\ handlers' = (handlers \ {h}) \cup {At(h, "match")}
    /\ Quiet
    /\ UNCHANGED <<swState, claimed, cacheKeys, caches, pendingDeletes, puts, netSeq, lastDocOk, lastDocStored,
                   scanVars>>

\* variant: the cache partitions are not consulted
defaultCatchNoCache(cached) == ResponseError

\* const cached = await caches.match(request); return cached || Response.error();
defaultCatch(cached) == Or3(cached, ResponseError, ResponseError)

default_match(h) ==
    /\ h.strategy = "default" /\ h.pc = "match"
    /\ handlers' = handlers \ {h}
    /\ \E cached \in cachesMatch(h.req.url) :
          Deliver(h, NetworkError, cached, defaultCatch(cached))
    /\ UNCHANGED <<swState, claimed, cacheKeys, caches, pendingDeletes, puts, netSeq,
                   lastDocOk, lastDocStored,
                   scanVars>>

\* ---------------------------------------------------------------------
\* cachePut, after its synchronous part
\* ---------------------------------------------------------------------
\* variant: an entry that exists is kept
cachePutEntryKeepsOld(old, response) == IF IsResponse(old) THEN old ELSE response

\* cache.put(request, resClone): the entry of the request is replaced as a whole
cachePutEntry(old, response) == response

\* const cache = await caches.open(cacheName); await cache.put(request, resClone);
cachePut_put(p) ==
    /\ cacheKeys' = Opened(p.cacheName)
    /\ caches' = [caches EXCEPT ![p.cacheName][p.url] = cachePutEntry(@, p.response)]
    /\ puts' = puts \ {p}
    /\ lastDocStored' = IF p.cacheName = PAGE_CACHE
                        THEN [lastDocStored EXCEPT ![p.url] = p.response]
                        ELSE lastDocStored
    /\ Quiet
    /\ UNCHANGED <<swState, claimed, pendingDeletes, handlers, netSeq, lastDocOk,
                   scanVars>>

\* variant: the error of the write fails the response
cachePutCatchRethrows(p) ==
    /\ delivery' = [req |-> Req("GET", "none", <<>>, p.url), strategy |-> "cachePut",
                     net |-> Undefined, cached |-> Undefined, out |-> ResponseError]
    /\ passedThrough' = NoRequest

\* catch (_) { /* ignore cache put errors */ }: nothing is rethrown, and
\* cachePut is not awaited by its caller
cachePutCatch(p) == Quiet

\* caches.open or cache.put threw or rejected
cachePut_threw(p) ==
    /\ puts' = puts \ {p}
    /\ cachePutCatch(p)
    /\ UNCHANGED <<swState, claimed, cacheKeys, caches, pendingDeletes, handlers, netSeq,
                   lastDocOk, lastDocStored,
                   scanVars>>

\* ---------------------------------------------------------------------
\* The browser clears the origin's cache storage (storage pressure, or the
\* user clearing it) while the worker stays registered and is idle.
\* ---------------------------------------------------------------------
Storage_cleared ==
    /\ swState = "activated"
    /\ handlers = {} /\ puts = {}
    /\ cacheKeys # {}
    /\ cacheKeys' = {}
    /\ caches' = [n \in CacheNames |-> EmptyCache]
    /\ lastDocOk' = EmptyCache
    /\ lastDocStored' = EmptyCache
    /\ Quiet
    /\ UNCHANGED <<swState, claimed, pendingDeletes, handlers, puts, netSeq,
                   scanVars>>

\* ---------------------------------------------------------------------
\* Specification of the three-partition service worker
\* ---------------------------------------------------------------------
AllResponses ==
    UNION {NetResponses(r, b) : r \in Requests, b \in 1..(MaxNet + 1)}

NextSW ==
    \/ Install_open
    \/ Install_addAll
    \/ Activate_keys
    \/ \E k \in CacheNames : Activate_delete(k)
    \/ Activate_claim
    \/ \E req \in Requests : FetchEvent(req)
    \/ \E h \in handlers, res \in AllResponses : networkFirst_fetched(h, res)
    \/ \E h \in handlers : networkFirst_failed(h)
    \/ \E h \in handlers : networkFirst_match(h)
    \/ \E h \in handlers : networkFirst_root(h)
    \/ \E h \in handlers : swr_match(h)
    \/ \E h \in handlers, res \in AllResponses : swr_fetched(h, res)
    \/ \E h \in handlers : swr_failed(h)
    \/ \E h \in handlers, res \in AllResponses : default_fetched(h, res)
    \/ \E h \in handlers : default_failed(h)
    \/ \E h \in handlers : default_match(h)
    \/ \E p \in puts : cachePut_put(p)
    \/ \E p \in puts : cachePut_threw(p)
    \/ Storage_cleared

SpecSW == InitSW /\ [][NextSW]_vars

\* ---------------------------------------------------------------------
\* Specification of stale-while-revalidate alone: the worker was installed
\* and activated in an earlier visit, the pages request static and CDN assets
\* ---------------------------------------------------------------------
SwrRequests == {r \in Requests : isGET(r) /\ Route(r).strategy = "swr"}

\* the worker after install and activate have run, with the partitions S in
\* the storage: the static partition as addAll filled it, the CDN partition
\* as earlier requests did
WorkerActivated(S) ==
    /\ swState = "activated"
    /\ claimed = TRUE
    /\ cacheKeys = S
    /\ caches = [n \in CacheNames |->
                    IF n \notin S THEN EmptyCache
                    ELSE IF n = STATIC_CACHE
                    THEN addAll(EmptyCache, PRECACHE_ASSETS,
                                [i \in 1..Len(PRECACHE_ASSETS) |-> "ok"], 0)
                    ELSE LeftBehind(n)]
    /\ lastDocOk = EmptyCache
    /\ lastDocStored = EmptyCache
    /\ pendingDeletes = {}
    /\ handlers = {}
    /\ puts = {}
    /\ netSeq = 0
    /\ delivery = NoDelivery
    /\ passedThrough = NoRequest

InitSwr ==
    /\ \E S \in SUBSET {STATIC_CACHE, CDN_CACHE} : WorkerActivated(S)
    /\ ScannerLoaded(TRUE, TRUE, <<>>)
    /\ PageOptions({}, TRUE, FALSE, 0)
    /\ CcScannerLoaded
    /\ UiLoaded

NextSwr ==
    \/ \E req \in SwrRequests : FetchEvent(req)
    \/ \E h \in handlers : swr_match(h)
    \/ \E h \in handlers, res \in AllResponses : swr_fetched(h, res)
    \/ \E h \in handlers : swr_failed(h)
    \/ \E p \in puts : cachePut_put(p)
    \/ \E p \in puts : cachePut_threw(p)

SpecSwr == InitSwr /\ [][NextSwr]_vars

\* ---------------------------------------------------------------------
\* Specification of the fetch listener under requests of every class, one
\* at a time: the worker was installed and activated in an earlier visit
\* ---------------------------------------------------------------------
\* requests of the pages, among them documents under /static/ and on a CDN host
RouteRequests ==
    Requests \cup
    { Req("GET", "navigate", <<"text/html", "application/xhtml+xml">>, AppCssUrl),
      Req("GET", "cors", <<"text/html">>, CdnUrl),
      Req("POST", "navigate", <<"text/html">>, AppCssUrl) }

InitRoute ==
    /\ WorkerActivated({STATIC_CACHE})
    /\ ScannerLoaded(TRUE, TRUE, <<>>)
    /\ PageOptions({}, TRUE, FALSE, 0)
    /\ CcScannerLoaded
    /\ UiLoaded

AllResponsesRoute ==
    UNION {NetResponses(r, b) : r \in RouteRequests, b \in 1..(MaxNet + 1)}

NextRoute ==
    \/ \E req \in RouteRequests : handlers = {} /\ puts = {} /\ FetchEvent(req)
    \/ \E h \in handlers, res \in AllResponsesRoute : networkFirst_fetched(h, res)
    \/ \E h \in handlers : networkFirst_failed(h)
    \/ \E h \in handlers : networkFirst_match(h)
    \/ \E h \in handlers : networkFirst_root(h)
    \/ \E h \in handlers : swr_match(h)
    \/ \E h \in handlers, res \in AllResponsesRoute : swr_fetched(h, res)
    \/ \E h \in handlers : swr_failed(h)
    \/ \E h \in handlers, res \in AllResponsesRoute : default_fetched(h, res)
    \/ \E h \in handlers : default_failed(h)
    \/ \E h \in handlers : default_match(h)
    \/ \E p \in puts : cachePut_put(p)
    \/ \E p \in puts : cachePut_threw(p)

SpecRoute == InitRoute /\ [][NextRoute]_vars

\* =====================================================================
\* The cc-v4 service worker (static/sw.js)
\* =====================================================================
InitSW4 ==
    /\ \E S \in SUBSET {STATIC_CACHE, PAGE_CACHE} : WorkerRegistered(S)
    /\ ScannerLoaded(TRUE, TRUE, <<>>)
    /\ PageOptions({}, TRUE, FALSE, 0)
    /\ CcScannerLoaded
    /\ UiLoaded

\* caches.open(CACHE)
V4_install_open ==
    /\ swState = "installing"
    /\ cacheKeys' = Opened(CACHE)
    /\ swState' = "precaching"
    /\ Quiet
    /\ UNCHANGED <<claimed, caches, pendingDeletes, handlers, puts, netSeq,
                   lastDocOk, lastDocStored, scanVars>>

\* c.addAll(STATIC_ASSETS) settles
V4_install_addAll ==
    /\ swState = "precaching"
    /\ netSeq < MaxNet
    /\ \E outcome \in [1..Len(STATIC_ASSETS) -> {"ok", "bad", "fail"}] :
          /\ caches' = [caches EXCEPT ![CACHE] =
                            addAll(@, STATIC_ASSETS, outcome, netSeq + 1)]
          /\ swState' = IF \A i \in 1..Len(STATIC_ASSETS) : outcome[i] = "ok"
                        THEN "installed" ELSE "redundant"
    /\ netSeq' = netSeq + 1
    /\ Quiet
    /\ UNCHANGED <<claimed, cacheKeys, pendingDeletes, handlers, puts,
                   lastDocOk, lastDocStored, scanVars>>

\* names = await caches.keys(); names.filter(n => n !== CACHE).map(n => caches.delete(n))
V4_activate_names ==
    /\ swState = "installed"
    /\ pendingDeletes' = {n \in cacheKeys : n # CACHE}
    /\ swState' = "activating"
    /\ Quiet
    /\ UNCHANGED <<claimed, cacheKeys, caches, handlers, puts, netSeq,
                   lastDocOk, lastDocStored, scanVars>>

\* one caches.delete(n) settles
V4_activate_delete(n) ==
    /\ swState = "activating"
    /\ n \in pendingDeletes
    /\ pendingDeletes' = pendingDeletes \ {n}
    /\ cacheKeys' = cacheKeys \ {n}
    /\ caches' = [caches EXCEPT ![n] = EmptyCache]
    /\ Quiet
    /\ UNCHANGED <<swState, claimed, handlers, puts, netSeq,
                   lastDocOk, lastDocStored, scanVars>>

\* await Promise.all(...) is over; await self.clients.claim()
V4_activate_claim ==
    /\ swState = "activating"
    /\ pendingDeletes = {}
    /\ claimed' = TRUE
    /\ swState' = "activated"
    /\ Quiet
    /\ UNCHANGED <<cacheKeys, caches, pendingDeletes, handlers, puts, netSeq,
                   lastDocOk, lastDocStored, scanVars>>

isHTML(request) ==
    \/ request.mode = "navigate"
    \/ \E i \in 1..Len(request.accept) : request.accept[i] = "text/html"

\* url.searchParams.has('nocache')
bypass(url) == \E i \in 1..Len(url.query) : url.query[i] = "nocache"

\* new Response('Offline', { status: 503 })
Offline503 == Response("default", FALSE, 0)

\* caches.match(req): a request that is not a GET matches nothing
cachesMatchReq(req) == IF isGET(req) THEN cachesMatch(req.url) ELSE {Undefined}

\* The listener answers every request, whatever its method.
V4_FetchEvent(req) ==
    /\ swState = "activated"
    /\ Tasks < MaxTasks
    /\ handlers' = handlers \cup
          { IF isHTML(req) \/ bypass(req.url)
            THEN [req |-> req, strategy |-> "html", cacheName |-> CACHE,
                  pc |-> "fetch", cached |-> Undefined, responded |-> FALSE]
            ELSE [req |-> req, strategy |-> "static", cacheName |-> CACHE,
                  pc |-> "match", cached |-> Undefined, responded |-> FALSE] }
    /\ Quiet
    /\ UNCHANGED <<swState, claimed, cacheKeys, caches, pendingDeletes, puts, netSeq,
                   lastDocOk, lastDocStored, scanVars>>

\* variant: the fresh response is written to the cache
V4HtmlPutStores(req, fresh) == {[cacheName |-> CACHE, url |-> req.url, response |-> fresh]}

\* "Don't cache HTML navigations to avoid staleness": the cache writes the
\* HTML / bypass branch leaves pending
V4HtmlPut(req, fresh) == {}

\* const fresh = await fetch(req, { cache: 'no-store' }); return fresh;
V4_html_fetched(h, res) ==
    /\ h.strategy = "html" /\ h.pc = "fetch"
    /\ netSeq < MaxNet
    /\ res \in NetResponses(h.req, netSeq + 1)
    /\ netSeq' = netSeq + 1
    /\ handlers' = handlers \ {h}
    /\ puts' = puts \cup V4HtmlPut(h.req, res)
    /\ Deliver(h, res, Undefined, res)
    /\ UNCHANGED <<swState, claimed, cacheKeys, caches, pendingDeletes,
                   lastDocOk, lastDocStored, scanVars>>

V4_html_failed(h) ==
    /\ h.strategy = "html" /\ h.pc = "fetch"
    /\ handlers' = (handlers \ {h}) \cup {At(h, "match")}
    /\ Quiet
    /\ UNCHANGED <<swState, claimed, cacheKeys, caches, pendingDeletes, puts, netSeq,
                   lastDocOk, lastDocStored, scanVars>>

\* const cached = await caches.match(req); return cached || new Response('Offline', ...)
V4_html_match(h) ==
    /\ h.strategy = "html" /\ h.pc = "match"
    /\ handlers' = handlers \ {h}
    /\ \E cached \in cachesMatchReq(h.req) :
          Deliver(h, NetworkError, cached, Or3(cached, Offline503, Offline503))
    /\ UNCHANGED <<swState, claimed, cacheKeys, caches, pendingDeletes, puts, netSeq,
                   lastDocOk, lastDocStored, scanVars>>

\* const cached = await caches.match(req); if (cached) return cached;
V4_static_match(h) ==
    /\ h.strategy = "static" /\ h.pc = "match"
    /\ \E cached \in cachesMatchReq(h.req) :
          IF Truthy(cached)
          THEN /\ handlers' = handlers \ {h}
               /\ Deliver(h, Undefined, cached, cached)
          ELSE /\ handlers' = (handlers \ {h}) \cup {At(h, "fetch")}
               /\ Quiet
    /\ UNCHANGED <<swState, claimed, cacheKeys, caches, pendingDeletes, puts, netSeq,
                   lastDocOk, lastDocStored, scanVars>>

\* c.put(req, copy), not awaited: the write it leaves pending (put rejects a
\* request that is not a GET)
V4Put(req, copy) ==
    IF isGET(req)
    THEN {[cacheName |-> CACHE, url |-> req.url, response |-> copy]}
    ELSE {}

\* const resp = await fetch(req); const copy = resp.clone();
\* const c = await caches.open(CACHE); c.put(req, copy); return resp;
V4_static_fetched(h, res) ==
    /\ h.strategy = "static" /\ h.pc = "fetch"
    /\ netSeq < MaxNet
    /\ res \in NetResponses(h.req, netSeq + 1)
    /\ netSeq' = netSeq + 1
    /\ cacheKeys' = Opened(CACHE)
    /\ puts' = puts \cup V4Put(h.req, res)
    /\ handlers' = handlers \ {h}
    /\ Deliver(h, res, Undefined, res)
    /\ UNCHANGED <<swState, claimed, caches, pendingDeletes,
                   lastDocOk, lastDocStored, scanVars>>

\* catch (e) { return new Response('Offline', { status: 503 }); }
V4_static_failed(h) ==
    /\ h.strategy = "static" /\ h.pc = "fetch"
    /\ handlers' = handlers \ {h}
    /\ Deliver(h, NetworkError, Undefined, Offline503)
    /\ UNCHANGED <<swState, claimed, cacheKeys, caches, pendingDeletes, puts, netSeq,
                   lastDocOk, lastDocStored, scanVars>>

\* the promise of c.put(req, copy) fulfils
V4_put(p) ==
    /\ p.cacheName \in cacheKeys
    /\ caches' = [caches EXCEPT ![p.cacheName][p.url] = p.response]
    /\ puts' = puts \ {p}
    /\ Quiet
    /\ UNCHANGED <<swState, claimed, cacheKeys, pendingDeletes, handlers, netSeq,
                   lastDocOk, lastDocStored, scanVars>>

\* the promise of c.put(req, copy) rejects; nothing handles it
V4_put_rejected(p) ==
    /\ puts' = puts \ {p}
    /\ Quiet
    /\ UNCHANGED <<swState, claimed, cacheKeys, caches, pendingDeletes, handlers, netSeq,
                   lastDocOk, lastDocStored, scanVars>>

AllResponsesV4 ==
    UNION {NetResponses(r, b) : r \in RequestsV4, b \in 1..(MaxNet + 1)}

NextSW4 ==
    \/ V4_install_open
    \/ V4_install_addAll
    \/ V4_activate_names
    \/ \E n \in CacheNames : V4_activate_delete(n)
    \/ V4_activate_claim
    \/ \E req \in RequestsV4 : V4_FetchEvent(req)
    \/ \E h \in handlers, res \in AllResponsesV4 : V4_html_fetched(h, res)
    \/ \E h \in handlers : V4_html_failed(h)
    \/ \E h \in handlers : V4_html_match(h)
    \/ \E h \in handlers : V4_static_match(h)
    \/ \E h \in handlers, res \in AllResponsesV4 : V4_static_fetched(h, res)
    \/ \E h \in handlers : V4_static_failed(h)
    \/ \E p \in puts : V4_put(p)
    \/ \E p \in puts : V4_put_rejected(p)

SpecSW4 == InitSW4 /\ [][NextSW4]_vars

\* =====================================================================
\* scanner.js: the camera session
\* =====================================================================
Cam(deviceId, label) == [deviceId |-> deviceId, label |-> label]

\* the lists of video inputs a device can report
CamLists ==
    { <<>>,
      <<Cam("cam-front", "Front Camera")>>,
      <<Cam("cam-front", "Front Camera"), Cam("cam-back", "Back Camera")>> }

\* /back|rear|environment/i.test(label)
LabelIsBack(label) == label \in {"Back Camera", "Rear Camera", "environment"}

\* cams.find((c) => ...): the first matching index, 0 when there is none
RECURSIVE FindBack(_, _)
FindBack(list, i) ==
    IF i > Len(list) THEN 0
    ELSE IF LabelIsBack(list[i].label) THEN i
    ELSE FindBack(list, i + 1)

getBestCameraDeviceId(list) ==
    IF Len(list) = 0 THEN "null"
    ELSE IF FindBack(list, 1) # 0 THEN list[FindBack(list, 1)].deviceId
    ELSE list[1].deviceId

InitScan ==
    /\ WorkerRegistered({})
    /\ \E bd \in BOOLEAN, md \in BOOLEAN, list \in CamLists : ScannerLoaded(bd, md, list)
    /\ PageOptions({}, TRUE, FALSE, MaxStartCalls)
    /\ CcScannerLoaded
    /\ UiLoaded

\* one call or loop enters, moves on or leaves
Enter(bag, pc) == [bag EXCEPT ![pc] = @ + 1]

Leave(bag, pc) == [bag EXCEPT ![pc] = @ - 1]

Move(bag, from, to) == Enter(Leave(bag, from), to)

\* the startScan promise settles
Settle(how) == settled' = how /\ returned' = NoReturn

\* no promise of the scanner settles in this step
Unsettled == settled' = NoneSettled /\ returned' = NoReturn

NoResult == resultCall' = NoCall

\* stopTracks(): the ZXing decode, the track and the stream's tracks are
\* stopped; stream = track = null
StoppedStreams == liveStreams \ {stream, track}

\* ---------------------------------------------------------------------
\* Detections: the candidate map, the picker and onResult
\* ---------------------------------------------------------------------
\* scanWindowMs = 2000, the unit of time being 2000 ms
scanWindowMs == 1

\* seenTimeoutMs = scanWindowMs || 2000
seenTimeoutMs == scanWindowMs

\* what one detect call, or one decode, can report of the codes in view
Batches(codes) ==
    {<<>>} \cup {<<c>> : c \in codes}
           \cup (IF {"A", "B"} \subseteq codes THEN {<<"A", "B">>} ELSE {})

\* an entry of seenMap: Date.now() - lastSeenTs is kept instead of lastSeenTs,
\* and no further than one unit beyond the window
Seen(val, age) == [val |-> val, age |-> age]

\* seenMap.has(val)
seenHas(map, val) == \E i \in 1..Len(map) : map[i].val = val

\* seenMap.set(val, now): a known key keeps its place
seenSet(map, val) ==
    IF seenHas(map, val)
    THEN [i \in 1..Len(map) |-> IF map[i].val = val THEN Seen(val, 0) ELSE map[i]]
    ELSE Append(map, Seen(val, 0))

RECURSIVE seenSetEach(_, _)
seenSetEach(map, values) ==
    IF values = <<>> THEN map
    ELSE seenSetEach(seenSet(map, Head(values)), Tail(values))

\* if (now - t > seenTimeoutMs) seenMap.delete(k)
IsFresh(entry) == entry.age <= seenTimeoutMs

purgeStale(map) == SelectSeq(map, IsFresh)

addDetections(map, values) == purgeStale(seenSetEach(map, values))

\* [...seenMap.keys()]
seenKeys(map) == [i \in 1..Len(map) |-> map[i].val]

clearSeen == seenMap' = <<>>

\* variant: a resolution leaves the session running
StopsOnResultNever == FALSE

\* if (!continueAfterResult) stopScan(), on the single-value path and in onPick
StopsOnResult == ~continueAfterResult

\* handleFound(values) takes the picker branch
FoundShowsPicker(values) ==
    allowMultiple /\ Len(seenKeys(addDetections(seenMap, values))) > 1

\* handleFound(values) calls stopScan
FoundStops(values) == ~FoundShowsPicker(values) /\ StopsOnResult

\* stopScan(), controls being what zxingControls holds when it is called
stopScan(controls) ==
    /\ stopRequested' = TRUE
    /\ liveStreams' = StoppedStreams
    /\ stream' = 0
    /\ track' = 0
    /\ boundDevice' = "null"
    /\ detector' = FALSE
    /\ zxingControls' = 0
    /\ decodes' = decodes \ {controls}

NoStop == UNCHANGED <<stopRequested, liveStreams, stream, track, boundDevice, detector>>

\* variant: onResult is called before stopScan
LiveAtOnResultLate(stops) == liveStreams

\* the streams with a live track when onResult is called: stopScan has
\* returned by then
LiveAtOnResult(stops) == IF stops THEN StoppedStreams ELSE liveStreams

\* onResult?.(v, { multiple })
onResult(v, multiple, stops, controls, shown, by) ==
    /\ resulted' = TRUE
    /\ resultCall' = [value |-> v, multiple |-> multiple,
                      live |-> LiveAtOnResult(stops),
                      decoding |-> IF stops THEN decodes \ {controls} ELSE decodes,
                      stopped |-> stops \/ stopRequested,
                      picker |-> shown, by |-> by]

\* handleFound(values) for a non-empty values; when stopScan is not called,
\* what becomes of zxingControls and of the decodes is left to the caller
handleFound(values, controls) ==
    LET uniq == seenKeys(addDetections(seenMap, values))
    IN  /\ seenMap' = addDetections(seenMap, values)
        /\ IF allowMultiple /\ Len(uniq) > 1
           THEN /\ picker' = uniq
                /\ NoResult
                /\ NoStop
                /\ UNCHANGED resulted
           ELSE /\ onResult(IF Len(uniq) > 0 THEN uniq[1] ELSE values[1], uniq,
                            StopsOnResult, controls, picker, "single")
                /\ IF StopsOnResult THEN stopScan(controls) ELSE NoStop
                /\ UNCHANGED picker

\* ---------------------------------------------------------------------
\* startScan, up to the first await (getUserMedia of the throwaway stream)
\* ---------------------------------------------------------------------
\* variant: the camera API is not looked for
CameraSupportedAlways == TRUE

\* navigator.mediaDevices?.getUserMedia is truthy
CameraSupported == hasMediaDevices

startScan_call ==
    /\ startCalls < startBudget
    /\ startCalls' = startCalls + 1
    /\ stopRequested' = FALSE
    /\ clearSeen
    /\ resulted' = FALSE
    /\ IF ~CameraSupported
       THEN /\ statusText' = "Camera not supported in this browser."
            /\ Settle("resolved")
            /\ UNCHANGED starts
       ELSE /\ statusText' = "Starting camera"
            /\ Unsettled
            /\ starts' = Enter(starts, "temp")
    /\ NoResult
    /\ UNCHANGED <<stream, track, boundDevice, detector, zxingControls, currentDeviceId,
                   hasBarcodeDetector, hasMediaDevices, cams, liveStreams, loops, decodes, swVars, optVars, helperVars, picker, ccVars, uiVars>>

\* the MediaStream getUserMedia resolves to: a stream that is none of the
\* live ones
NewStream == CHOOSE n \in 1..(Cardinality(liveStreams) + 1) : n \notin liveStreams

\* variant: the tracks of the throwaway stream are left running
tempTracksLeftLive(granted) == IF granted THEN {NewStream} ELSE {}

\* temp.getTracks().forEach((t) => t.stop()): the live tracks the throwaway
\* stream is left with
tempTracksLeft(granted) == {}

\* getBackCameraStream: the throwaway getUserMedia settles; a granted stream
\* has its tracks stopped in the same turn, a rejection is caught: either way
\* no track of it is left live. enumerateDevices is awaited next.
getBackCameraStream_temp(granted) ==
    /\ starts["temp"] > 0
    /\ granted => cams # <<>>
    /\ liveStreams' = liveStreams \cup tempTracksLeft(granted)
    /\ starts' = Move(starts, "temp", "enumerate")
    /\ Unsettled
    /\ NoResult
    /\ UNCHANGED <<stream, track, boundDevice, detector, zxingControls, stopRequested, currentDeviceId,
                   hasBarcodeDetector, hasMediaDevices, cams, startCalls, loops, decodes, statusText, swVars, optVars, helperVars, foundVars, ccVars, uiVars>>

\* const id = await getBestCameraDeviceId(); currentDeviceId = id;
\* openStream(videoEl, id) calls getUserMedia
getBackCameraStream_enumerated ==
    /\ starts["enumerate"] > 0
    /\ currentDeviceId' = getBestCameraDeviceId(cams)
    /\ starts' = Move(starts, "enumerate", "gum1")
    /\ Unsettled
    /\ NoResult
    /\ UNCHANGED <<stream, track, boundDevice, detector, zxingControls, stopRequested,
                   hasBarcodeDetector, hasMediaDevices, cams, liveStreams, startCalls, loops, decodes, statusText, swVars, optVars, helperVars, foundVars, ccVars, uiVars>>

\* the devices getUserMedia can take the stream from: the one of
\* deviceId: {exact: deviceId}, any video input under facingMode: {ideal: "environment"}
Granted(deviceId) ==
    IF deviceId # "null" THEN {deviceId}
    ELSE {cams[i].deviceId : i \in 1..Len(cams)}

\* openStream: getUserMedia resolves; stream = media; track = ...; play() is awaited.
\* getBackCameraStream calls openStream(videoEl, id) first and
\* openStream(videoEl, null) in its catch block.
openStream_granted(pc) ==
    /\ pc \in {"gum1", "gum2"}
    /\ starts[pc] > 0
    /\ cams # <<>>
    /\ liveStreams' = liveStreams \cup {NewStream}
    /\ stream' = NewStream
    /\ track' = NewStream
    /\ boundDevice' \in Granted(IF pc = "gum1" THEN getBestCameraDeviceId(cams) ELSE "null")
    /\ starts' = Move(starts, pc, IF pc = "gum1" THEN "play1" ELSE "play2")
    /\ Unsettled
    /\ NoResult
    /\ UNCHANGED <<detector, zxingControls, stopRequested, currentDeviceId,
                   hasBarcodeDetector, hasMediaDevices, cams,
                   startCalls, loops, decodes, statusText, swVars, optVars, helperVars, foundVars, ccVars, uiVars>>

\* openStream throws (getUserMedia or play() rejected). In the try block of
\* getBackCameraStream the catch calls openStream(videoEl, null); in the
\* catch block the rejection leaves getBackCameraStream and startScan.
openStream_threw(pc) ==
    /\ pc \in {"gum1", "play1", "gum2", "play2"}
    /\ starts[pc] > 0
    /\ IF pc \in {"gum1", "play1"}
       THEN /\ starts' = Move(starts, pc, "gum2")
            /\ Unsettled
       ELSE /\ starts' = Leave(starts, pc)
            /\ Settle("rejected")
    /\ NoResult
    /\ UNCHANGED <<stream, track, boundDevice, detector, zxingControls, stopRequested, currentDeviceId,
                   hasBarcodeDetector, hasMediaDevices, cams, liveStreams, startCalls, loops, decodes, statusText, swVars, optVars, helperVars, foundVars, ccVars, uiVars>>

\* play() resolves and startScan goes on after await getBackCameraStream:
\* with a BarcodeDetector the loop is called and startScan returns; the loop
\* returns at once when stopRequested is set. Without one, the ZXing script
\* load is awaited.
openStream_played(pc, constructed) ==
    /\ pc \in {"play1", "play2"}
    /\ starts[pc] > 0
    /\ constructed => hasBarcodeDetector
    /\ IF constructed
       THEN /\ detector' = TRUE
            /\ statusText' = "Point camera at code"
            /\ loops' = IF stopRequested THEN loops ELSE Enter(loops, "detect")
            /\ starts' = Leave(starts, pc)
            /\ Settle("resolved")
       ELSE /\ detector' = IF hasBarcodeDetector THEN FALSE ELSE detector
            /\ statusText' = "Loading scanner"
            /\ starts' = Move(starts, pc, "zxload")
            /\ Unsettled
            /\ UNCHANGED loops
    /\ NoResult
    /\ UNCHANGED <<stream, track, boundDevice, zxingControls, stopRequested, currentDeviceId,
                   hasBarcodeDetector, hasMediaDevices, cams, liveStreams, startCalls, decodes, swVars, optVars, helperVars, foundVars, ccVars, uiVars>>

\* ---------------------------------------------------------------------
\* startScan: the native loop
\* ---------------------------------------------------------------------
\* await detector.detect(videoEl) settles with values (empty: no code, or the
\* call threw); if (vals.length) handleFound(vals); requestAnimationFrame(loop)
loop_detected(values) ==
    /\ loops["detect"] > 0
    /\ values \in Batches(scene)
    /\ loops' = Move(loops, "detect", "frame")
    /\ Unsettled
    /\ IF values = <<>>
       THEN /\ NoResult
            /\ NoStop
            /\ UNCHANGED <<zxingControls, decodes, foundVars>>
       ELSE /\ handleFound(values, zxingControls)
            /\ FoundStops(values) \/ UNCHANGED <<zxingControls, decodes>>
    /\ UNCHANGED <<currentDeviceId,
                   hasBarcodeDetector, hasMediaDevices, cams, startCalls, starts, statusText, swVars, optVars, helperVars, ccVars, uiVars>>

\* the frame callback runs loop(): if (stopRequested) return; a detect call
\* is made when detector is set; with detector null the call throws, the
\* catch swallows it and the next frame is requested
loop_frame ==
    /\ loops["frame"] > 0
    /\ loops' = IF stopRequested THEN Leave(loops, "frame")
                ELSE IF detector THEN Move(loops, "frame", "detect")
                ELSE loops
    /\ Unsettled
    /\ NoResult
    /\ UNCHANGED <<stream, track, boundDevice, detector, zxingControls, stopRequested, currentDeviceId,
                   hasBarcodeDetector, hasMediaDevices, cams, liveStreams, startCalls, starts, decodes, statusText, swVars, optVars, helperVars, foundVars, ccVars, uiVars>>

\* ---------------------------------------------------------------------
\* startScan: the ZXing fallback
\* ---------------------------------------------------------------------
\* the script load settles: onload goes on to createInstanceWithDelay and
\* decodeFromVideoDevice, onerror rejects startScan
zxing_loaded(ok) ==
    /\ starts["zxload"] > 0
    /\ IF ok
       THEN /\ statusText' = "Point camera at code"
            /\ starts' = Move(starts, "zxload", "zxdecode")
            /\ Unsettled
       ELSE /\ starts' = Leave(starts, "zxload")
            /\ Settle("rejected")
            /\ UNCHANGED statusText
    /\ NoResult
    /\ UNCHANGED <<stream, track, boundDevice, detector, zxingControls, stopRequested, currentDeviceId,
                   hasBarcodeDetector, hasMediaDevices, cams, liveStreams, startCalls, loops, decodes, swVars, optVars, helperVars, foundVars, ccVars, uiVars>>

\* the controls decodeFromVideoDevice resolves to: those of a decode that is
\* none of the running ones
NewDecode == CHOOSE n \in 1..(Cardinality(decodes) + 1) : n \notin decodes

\* zxingControls = await zxingReader.decodeFromVideoDevice(...): the decode runs
zxing_decoding ==
    /\ starts["zxdecode"] > 0
    /\ zxingControls' = NewDecode
    /\ decodes' = decodes \cup {NewDecode}
    /\ starts' = Leave(starts, "zxdecode")
    /\ Settle("resolved")
    /\ NoResult
    /\ UNCHANGED <<stream, track, boundDevice, detector, stopRequested, currentDeviceId,
                   hasBarcodeDetector, hasMediaDevices, cams, liveStreams, startCalls, loops, statusText, swVars, optVars, helperVars, foundVars, ccVars, uiVars>>

\* the decode callback: zxingControls = controls_; if (stopRequested) the
\* decode is stopped; if (result) handleFound([result.getText()]) and, unless
\* continueAfterResult, zxingControls?.stop()
zxing_callback(d, values) ==
    /\ d \in decodes
    /\ values \in Batches(scene) /\ Len(values) <= 1
    /\ Unsettled
    /\ IF stopRequested
       THEN /\ zxingControls' = d
            /\ decodes' = decodes \ {d}
            /\ NoResult
            /\ NoStop
            /\ UNCHANGED foundVars
       ELSE IF values = <<>>
       THEN /\ zxingControls' = d
            /\ NoResult
            /\ NoStop
            /\ UNCHANGED <<decodes, foundVars>>
       ELSE /\ handleFound(values, d)
            /\ \/ FoundStops(values)
               \/ /\ zxingControls' = d
                  /\ decodes' = IF continueAfterResult THEN decodes ELSE decodes \ {d}
    /\ UNCHANGED <<currentDeviceId,
                   hasBarcodeDetector, hasMediaDevices, cams, startCalls, starts, loops, statusText, swVars, optVars, helperVars, ccVars, uiVars>>

\* ---------------------------------------------------------------------
\* stopScan, called by the page
\* ---------------------------------------------------------------------
stopScan_call ==
    /\ stopScan(zxingControls)
    /\ Unsettled
    /\ NoResult
    /\ UNCHANGED <<currentDeviceId, hasBarcodeDetector, hasMediaDevices, cams, startCalls, starts, loops, statusText, swVars, optVars, helperVars, foundVars, ccVars, uiVars>>

\* ---------------------------------------------------------------------
\* The picker overlay, and time
\* ---------------------------------------------------------------------
\* btn.onclick: wrapper.remove(); onPick(v), which is
\* if (!continueAfterResult) stopScan(); onResult?.(choice, { multiple: uniq })
picker_pick(choice) ==
    /\ \E i \in 1..Len(picker) : picker[i] = choice
    /\ picker' = <<>>
    /\ onResult(choice, picker, StopsOnResult, zxingControls, <<>>, "picker")
    /\ IF StopsOnResult
       THEN stopScan(zxingControls)
       ELSE NoStop /\ UNCHANGED <<zxingControls, decodes>>
    /\ Unsettled
    /\ UNCHANGED <<currentDeviceId, hasBarcodeDetector, hasMediaDevices, cams, startCalls, starts, loops, statusText, seenMap,
                   swVars, optVars, helperVars, ccVars, uiVars>>

\* cancel.onclick: wrapper.remove()
picker_cancel ==
    /\ picker # <<>>
    /\ picker' = <<>>
    /\ Unsettled
    /\ NoResult
    /\ UNCHANGED <<stream, track, boundDevice, detector, zxingControls, stopRequested, currentDeviceId,
                   hasBarcodeDetector, hasMediaDevices, cams, liveStreams, startCalls, starts, loops, decodes, statusText,
                   seenMap, resulted, swVars, optVars, helperVars, ccVars, uiVars>>

\* one unit of time passes: every candidate was seen one unit longer ago
Tick ==
    /\ \E i \in 1..Len(seenMap) : IsFresh(seenMap[i])
    /\ seenMap' = [i \in 1..Len(seenMap) |->
                      IF IsFresh(seenMap[i])
                      THEN Seen(seenMap[i].val, seenMap[i].age + 1)
                      ELSE seenMap[i]]
    /\ Unsettled
    /\ NoResult
    /\ UNCHANGED <<stream, track, boundDevice, detector, zxingControls, stopRequested, currentDeviceId,
                   hasBarcodeDetector, hasMediaDevices, cams, liveStreams, startCalls, starts, loops, decodes, statusText,
                   picker, resulted, swVars, optVars, helperVars, ccVars, uiVars>>

NextScan ==
    \/ startScan_call
    \/ \E granted \in BOOLEAN : getBackCameraStream_temp(granted)
    \/ getBackCameraStream_enumerated
    \/ \E pc \in StartPcs : openStream_granted(pc)
    \/ \E pc \in StartPcs : openStream_threw(pc)
    \/ \E pc \in StartPcs, constructed \in BOOLEAN : openStream_played(pc, constructed)
    \/ \E values \in Batches(scene) : loop_detected(values)
    \/ loop_frame
    \/ \E ok \in BOOLEAN : zxing_loaded(ok)
    \/ zxing_decoding
    \/ \E d \in decodes, values \in Batches(scene) : zxing_callback(d, values)
    \/ stopScan_call

\* the lifecycle of the camera session, no code in view
SpecScan == InitScan /\ [][NextScan]_vars

\* ---------------------------------------------------------------------
\* Specification of a scanning session with codes in view, in a browser
\* that has BarcodeDetector (its constructor may throw, which leads to the
\* ZXing fallback) and two cameras
\* ---------------------------------------------------------------------
TwoCams == <<Cam("cam-front", "Front Camera"), Cam("cam-back", "Back Camera")>>

InitDetect ==
    /\ WorkerRegistered({})
    /\ ScannerLoaded(TRUE, TRUE, TwoCams)
    /\ \E codes \in {{"A"}, {"A", "B"}}, multiple \in BOOLEAN, continue \in BOOLEAN :
          /\ multiple \/ codes = {"A", "B"}
          /\ PageOptions(codes, multiple, continue, MaxSessions)
    /\ CcScannerLoaded
    /\ UiLoaded

NextDetect ==
    \/ NextScan
    \/ \E choice \in {"A", "B"} : picker_pick(choice)
    \/ picker_cancel
    \/ Tick

SpecDetect == InitDetect /\ [][NextDetect]_vars

\* =====================================================================
\* scanner.js: the helpers switchCamera and tryTorch
\* =====================================================================
\* cams.findIndex((c) => c.deviceId === id): zero-based, -1 when there is none
RECURSIVE findIndex(_, _, _)
findIndex(list, id, i) ==
    IF i > Len(list) THEN -1
    ELSE IF list[i].deviceId = id THEN i - 1
    ELSE findIndex(list, id, i + 1)

\* Math.max(0, n)
Max0(n) == IF n < 0 THEN 0 ELSE n

\* const idx = Math.max(0, cams.findIndex(...)); cams[(idx + 1) % cams.length]
switchCameraNext(list, id) ==
    list[((Max0(findIndex(list, id, 1)) + 1) % Len(list)) + 1].deviceId

NewSwitch == CHOOSE n \in 1..(Cardinality(switches) + 1) : \A c \in switches : c.id # n

\* the settling of a switchCamera promise
SwitchReturn(value) ==
    [fn |-> "switchCamera", value |-> value, live |-> FALSE, torch |-> FALSE, applied |-> FALSE]

\* switchCamera, up to its first await: stopTracks() stops the ZXing decode,
\* the track and the stream's tracks and sets stream = track = null;
\* getDevices is awaited
switchCamera_call ==
    /\ Cardinality(switches) < MaxSwitchCalls
    /\ decodes' = decodes \ {zxingControls}
    /\ liveStreams' = StoppedStreams
    /\ stream' = 0
    /\ track' = 0
    /\ boundDevice' = "null"
    /\ switches' = switches \cup {[id |-> NewSwitch, pc |-> "enumerate",
                                    from |-> boundDevice, target |-> "null"]}
    /\ Unsettled
    /\ NoResult
    /\ UNCHANGED <<detector, zxingControls, stopRequested, currentDeviceId, torches,
                   hasBarcodeDetector, hasMediaDevices, cams, startCalls, starts, loops,
                   statusText, swVars, optVars, foundVars, ccVars, uiVars>>

\* getDevices resolves: if (!cams.length) return false; otherwise
\* currentDeviceId = next.deviceId and openStream calls getUserMedia
switchCamera_enumerated(c) ==
    /\ c \in switches /\ c.pc = "enumerate"
    /\ IF cams = <<>>
       THEN /\ switches' = switches \ {c}
            /\ returned' = SwitchReturn(FALSE)
            /\ UNCHANGED currentDeviceId
       ELSE /\ currentDeviceId' = switchCameraNext(cams, currentDeviceId)
            /\ switches' = (switches \ {c}) \cup
                  {[c EXCEPT !.pc = "gum", !.target = switchCameraNext(cams, currentDeviceId)]}
            /\ returned' = NoReturn
    /\ settled' = NoneSettled
    /\ NoResult
    /\ UNCHANGED <<stream, track, boundDevice, detector, zxingControls, stopRequested,
                   torches,
                   hasBarcodeDetector, hasMediaDevices, cams, liveStreams, startCalls, starts,
                   loops, decodes, statusText, swVars, optVars, foundVars, ccVars, uiVars>>

\* openStream(videoEl, currentDeviceId): getUserMedia resolves; stream = media;
\* track = ...; play() is awaited
switchCamera_granted(c) ==
    /\ c \in switches /\ c.pc = "gum"
    /\ liveStreams' = liveStreams \cup {NewStream}
    /\ stream' = NewStream
    /\ track' = NewStream
    /\ boundDevice' \in Granted(c.target)
    /\ switches' = (switches \ {c}) \cup {[c EXCEPT !.pc = "play"]}
    /\ Unsettled
    /\ NoResult
    /\ UNCHANGED <<detector, zxingControls, stopRequested, currentDeviceId,
                   torches,
                   hasBarcodeDetector, hasMediaDevices, cams, startCalls, starts,
                   loops, decodes, statusText, swVars, optVars, foundVars, ccVars, uiVars>>

\* getUserMedia or play() rejects: openStream throws and switchCamera with it
switchCamera_threw(c) ==
    /\ c \in switches /\ c.pc \in {"gum", "play"}
    /\ switches' = switches \ {c}
    /\ returned' = SwitchReturn("rejected")
    /\ settled' = NoneSettled
    /\ NoResult
    /\ UNCHANGED <<stream, track, boundDevice, detector, zxingControls, stopRequested,
                   currentDeviceId, torches,
                   hasBarcodeDetector, hasMediaDevices, cams, liveStreams, startCalls, starts,
                   loops, decodes, statusText, swVars, optVars, foundVars, ccVars, uiVars>>

\* play() resolves: return true
switchCamera_played(c) ==
    /\ c \in switches /\ c.pc = "play"
    /\ switches' = switches \ {c}
    /\ returned' = SwitchReturn(TRUE)
    /\ settled' = NoneSettled
    /\ NoResult
    /\ UNCHANGED <<stream, track, boundDevice, detector, zxingControls, stopRequested,
                   currentDeviceId, torches,
                   hasBarcodeDetector, hasMediaDevices, cams, liveStreams, startCalls, starts,
                   loops, decodes, statusText, swVars, optVars, foundVars, ccVars, uiVars>>

\* the video inputs that have a light: the back cameras
HasTorch(deviceId) ==
    \E i \in 1..Len(cams) : cams[i].deviceId = deviceId /\ LabelIsBack(cams[i].label)

\* what track.getCapabilities?.() gives: the call throws, the browser has no
\* getCapabilities, or the capabilities of the track's device are returned
Capabilities(deviceId) ==
    {"throws", "undefined"} \cup (IF HasTorch(deviceId) THEN {"torch"} ELSE {"no torch"})

\* variant: the capabilities are not looked at
tryTorchSupportedAlways(caps) == TRUE

\* if (!caps || !caps.torch) return false: the test is passed
tryTorchSupported(caps) == caps = "torch"

\* catch { return false; }
tryTorchCatch == FALSE

\* the settling of a tryTorch promise
TorchReturn(value, live, torch, applied) ==
    [fn |-> "tryTorch", value |-> value, live |-> live, torch |-> torch, applied |-> applied]

NewTorch == CHOOSE n \in 1..(Cardinality(torches) + 1) : \A t \in torches : t.id # n

\* tryTorch(on), up to its await: if (!track) return false; the capabilities
\* are read; track.applyConstraints is awaited when they list a torch
tryTorch_call(caps) ==
    /\ Cardinality(torches) < MaxTorchCalls
    /\ caps \in IF track = 0 THEN {"unread"} ELSE Capabilities(boundDevice)
    /\ IF track = 0
       THEN /\ returned' = TorchReturn(FALSE, FALSE, FALSE, FALSE)
            /\ UNCHANGED torches
       ELSE IF caps = "throws"
       THEN /\ returned' = TorchReturn(tryTorchCatch, track \in liveStreams, FALSE, FALSE)
            /\ UNCHANGED torches
       ELSE IF ~tryTorchSupported(caps)
       THEN /\ returned' = TorchReturn(FALSE, track \in liveStreams, caps = "torch", FALSE)
            /\ UNCHANGED torches
       ELSE /\ torches' = torches \cup {[id |-> NewTorch, live |-> track \in liveStreams,
                                          torch |-> caps = "torch"]}
            /\ returned' = NoReturn
    /\ settled' = NoneSettled
    /\ NoResult
    /\ UNCHANGED <<stream, track, boundDevice, detector, zxingControls, stopRequested,
                   currentDeviceId, switches,
                   hasBarcodeDetector, hasMediaDevices, cams, liveStreams, startCalls, starts,
                   loops, decodes, statusText, swVars, optVars, foundVars, ccVars, uiVars>>

\* applyConstraints settles: return true when it resolved, the catch block
\* when it rejected
tryTorch_applied(t, ok) ==
    /\ t \in torches
    /\ torches' = torches \ {t}
    /\ returned' = TorchReturn(IF ok THEN TRUE ELSE tryTorchCatch, t.live, t.torch, ok)
    /\ settled' = NoneSettled
    /\ NoResult
    /\ UNCHANGED <<stream, track, boundDevice, detector, zxingControls, stopRequested,
                   currentDeviceId, switches,
                   hasBarcodeDetector, hasMediaDevices, cams, liveStreams, startCalls, starts,
                   loops, decodes, statusText, swVars, optVars, foundVars, ccVars, uiVars>>

\* ---------------------------------------------------------------------
\* Specifications of a camera session whose page also switches the camera,
\* and of one whose page also asks for the torch
\* ---------------------------------------------------------------------
InitHelpers ==
    /\ WorkerRegistered({})
    /\ \E bd \in BOOLEAN, list \in CamLists : ScannerLoaded(bd, TRUE, list)
    /\ PageOptions({}, TRUE, FALSE, MaxSessions)
    /\ CcScannerLoaded
    /\ UiLoaded

NextSwitch ==
    \/ NextScan
    \/ switchCamera_call
    \/ \E c \in switches : switchCamera_enumerated(c)
    \/ \E c \in switches : switchCamera_granted(c)
    \/ \E c \in switches : switchCamera_threw(c)
    \/ \E c \in switches : switchCamera_played(c)

SpecSwitch == InitHelpers /\ [][NextSwitch]_vars

NextTorch ==
    \/ NextScan
    \/ \E caps \in {"unread", "throws", "undefined", "torch", "no torch"} : tryTorch_call(caps)
    \/ \E t \in torches, ok \in BOOLEAN : tryTorch_applied(t, ok)

SpecTorch == InitHelpers /\ [][NextTorch]_vars

\* =====================================================================
\* cc-scanner.js: start, stop, the loop and the visibility handler
\* =====================================================================
InitCC ==
    /\ WorkerRegistered({})
    /\ ScannerLoaded(TRUE, TRUE, <<>>)
    /\ PageOptions({}, TRUE, FALSE, 0)
    /\ CcScannerLoaded
    /\ UiLoaded

\* no step of cc-scanner.js touches the worker or scanner.js
CcOnly == Unsettled /\ NoResult /\ UNCHANGED <<swVars, scannerVars, uiVars>>

\* stop(): scanning = false; the callback rafId names is cancelled; the tracks
\* of stream are stopped; stream = null; track = null
ccStop ==
    /\ ccScanning' = FALSE
    /\ ccFrames' = IF ccRafId THEN ccFrames - 1 ELSE ccFrames
    /\ ccRafId' = FALSE
    /\ ccLive' = ccLive \ {ccStream}
    /\ ccStream' = 0

\* start(), up to the first await: if (scanning) return; getUserMedia is called
ccStart ==
    /\ ccStartCalls < MaxCcStarts
    /\ ccStartCalls' = ccStartCalls + 1
    /\ ccStarts' = IF ccScanning THEN ccStarts ELSE Enter(ccStarts, "gum1")
    /\ ccSubmits' = 0

\* the load event and a click on the start button
cc_start ==
    /\ ccStart
    /\ CcOnly
    /\ UNCHANGED <<hidden, ccStream, ccScanning, ccLive, ccFrames, ccRafId, ccDetects>>

\* the MediaStream getUserMedia resolves to
NewCcStream == CHOOSE n \in 1..(Cardinality(ccLive) + 1) : n \notin ccLive

\* stream = await getUserMedia(...) resolves; video.srcObject = stream;
\* track = ...; video.play() is awaited
cc_gum_granted(pc) ==
    /\ pc \in {"gum1", "gum2"}
    /\ ccStarts[pc] > 0
    /\ ccStream' = NewCcStream
    /\ ccLive' = ccLive \cup {NewCcStream}
    /\ ccStarts' = Move(ccStarts, pc, "play")
    /\ CcOnly
    /\ UNCHANGED <<hidden, ccScanning, ccStartCalls, ccFrames, ccRafId, ccDetects, ccSubmits>>

\* getUserMedia rejects: the first rejection is caught and answered by the
\* request for any camera, the second one leaves start
cc_gum_rejected(pc) ==
    /\ pc \in {"gum1", "gum2"}
    /\ ccStarts[pc] > 0
    /\ ccStarts' = IF pc = "gum1" THEN Move(ccStarts, pc, "gum2") ELSE Leave(ccStarts, pc)
    /\ CcOnly
    /\ UNCHANGED <<hidden, ccStream, ccScanning, ccLive, ccStartCalls, ccFrames, ccRafId, ccDetects, ccSubmits>>

\* loop() once scanning is known to be set: rafId = requestAnimationFrame(loop),
\* the callback that ran being pending no more; when the video is ready a
\* detect call is awaited
ccLoop(pending, ready) ==
    /\ ready => ccDetects < MaxCcDetects
    /\ ccFrames' = pending + 1
    /\ ccRafId' = TRUE
    /\ ccDetects' = IF ready THEN ccDetects + 1 ELSE ccDetects

\* video.play() settles, either way; scanning = true; loop(); enableTorch(true)
cc_played(ready) ==
    /\ ccStarts["play"] > 0
    /\ ccStarts' = Leave(ccStarts, "play")
    /\ ccScanning' = TRUE
    /\ ccLoop(ccFrames, ready)
    /\ CcOnly
    /\ UNCHANGED <<hidden, ccStream, ccLive, ccStartCalls, ccSubmits>>

\* an animation-frame callback runs loop(): the one rafId names, or another
\* one that is pending; if (!scanning) return
cc_frame(named, ready) ==
    /\ ccFrames > 0
    /\ IF named THEN ccRafId ELSE ccFrames > (IF ccRafId THEN 1 ELSE 0)
    /\ IF ccScanning
       THEN ccLoop(ccFrames - 1, ready)
       ELSE /\ ~ready
            /\ ccFrames' = ccFrames - 1
            /\ ccRafId' = (ccRafId /\ ~named)
            /\ UNCHANGED ccDetects
    /\ CcOnly
    /\ UNCHANGED <<hidden, ccStream, ccScanning, ccStarts, ccLive, ccStartCalls, ccSubmits>>

\* a detect call settles; with a code that qualifies, onDetect(raw) calls
\* stop(), fills the input and submits its form
cc_detected(found) ==
    /\ ccDetects > 0
    /\ ccDetects' = ccDetects - 1
    /\ IF found
       THEN ccStop /\ ccSubmits' = ccSubmits + 1
       ELSE UNCHANGED <<ccStream, ccScanning, ccLive, ccFrames, ccRafId, ccSubmits>>
    /\ CcOnly
    /\ UNCHANGED <<hidden, ccStarts, ccStartCalls>>

\* a click on the stop button
cc_stop ==
    /\ ccStop
    /\ CcOnly
    /\ UNCHANGED <<hidden, ccStarts, ccStartCalls, ccDetects, ccSubmits>>

\* visibilitychange: if (document.hidden) stop(); else start();
cc_visibilitychange ==
    /\ hidden' = ~hidden
    /\ IF hidden'
       THEN ccStop /\ UNCHANGED <<ccStarts, ccStartCalls, ccSubmits>>
       ELSE ccStart /\ UNCHANGED <<ccStream, ccScanning, ccLive, ccFrames, ccRafId>>
    /\ CcOnly
    /\ UNCHANGED ccDetects

NextCC ==
    \/ cc_start
    \/ \E pc \in CcPcs : cc_gum_granted(pc)
    \/ \E pc \in CcPcs : cc_gum_rejected(pc)
    \/ \E ready \in BOOLEAN : cc_played(ready)
    \/ \E named \in BOOLEAN, ready \in BOOLEAN : cc_frame(named, ready)
    \/ \E found \in BOOLEAN : cc_detected(found)
    \/ cc_stop
    \/ cc_visibilitychange

SpecCC == InitCC /\ [][NextCC]_vars

\* =====================================================================
\* The global search box (part_003)
\* =====================================================================
\* the non-empty values e.target.value.trim() takes
Queries == {"a", "ab"}

\* no step of the search box touches the worker or the scanners
SearchOnly ==
    Unsettled /\ NoResult /\ UNCHANGED <<swVars, scannerVars, ccVars, drawerVars, themeVars>>

NewSearch == CHOOSE n \in 1..(Cardinality(searches) + 1) : \A c \in searches : c.id # n

\* if (inFlight) inFlight.abort(): the request of that controller is aborted
Abort(calls, id) == {IF c.id = id THEN [c EXCEPT !.aborted = TRUE] ELSE c : c \in calls}

\* the input listener, up to its first await: an empty value hides and empties
\* the box and returns; otherwise the request of the controller in inFlight is
\* aborted and a new request is made
search_input(v) ==
    /\ qValue' = v
    /\ IF v = ""
       THEN /\ boxHidden' = TRUE
            /\ boxHTML' = ""
            /\ UNCHANGED <<inFlight, searches>>
       ELSE /\ Cardinality(searches) < MaxSearches
            /\ searches' = Abort(searches, inFlight) \cup
                  {[id |-> NewSearch, q |-> v, pc |-> "fetch", aborted |-> FALSE]}
            /\ inFlight' = NewSearch
            /\ UNCHANGED <<boxHidden, boxHTML>>
    /\ SearchOnly

\* fetch resolves: r.json() is awaited
search_fetched(c) ==
    /\ c \in searches /\ c.pc = "fetch" /\ ~c.aborted
    /\ searches' = (searches \ {c}) \cup {[c EXCEPT !.pc = "json"]}
    /\ UNCHANGED <<qValue, inFlight, boxHidden, boxHTML>>
    /\ SearchOnly

\* fetch or r.json() rejects (the request was aborted, the network failed,
\* the body is no JSON) or the template throws: catch(_){}
search_rejected(c) ==
    /\ c \in searches
    /\ searches' = searches \ {c}
    /\ UNCHANGED <<qValue, inFlight, boxHidden, boxHTML>>
    /\ SearchOnly

\* r.json() resolves: box.innerHTML = ...; box.classList.remove("hidden")
search_rendered(c) ==
    /\ c \in searches /\ c.pc = "json" /\ ~c.aborted
    /\ searches' = searches \ {c}
    /\ boxHTML' = c.q
    /\ boxHidden' = FALSE
    /\ UNCHANGED <<qValue, inFlight>>
    /\ SearchOnly

\* a click outside the box and the input: box.classList.add("hidden")
search_click_outside ==
    /\ ~boxHidden
    /\ boxHidden' = TRUE
    /\ UNCHANGED <<qValue, inFlight, searches, boxHTML>>
    /\ SearchOnly

InitSearch ==
    /\ WorkerRegistered({})
    /\ ScannerLoaded(TRUE, TRUE, <<>>)
    /\ PageOptions({}, TRUE, FALSE, 0)
    /\ CcScannerLoaded
    /\ UiLoaded

NextSearch ==
    \/ \E v \in Queries \cup {""} : search_input(v)
    \/ \E c \in searches : search_fetched(c)
    \/ \E c \in searches : search_rejected(c)
    \/ \E c \in searches : search_rendered(c)
    \/ search_click_outside

SpecSearch == InitSearch /\ [][NextSearch]_vars

\* =====================================================================
\* The mobile drawer (static/js/mobile.js)
\* =====================================================================
\* no step of the drawer touches the worker, the scanners or the search box
DrawerOnly ==
    Unsettled /\ NoResult /\ UNCHANGED <<swVars, scannerVars, ccVars, searchVars, themeVars>>

\* savedScrollY = window.scrollY || 0; the body becomes position: fixed with
\* top: -savedScrollY, so the document itself no longer scrolls
lockScroll ==
    /\ savedScrollY' = scrollY
    /\ bodyLocked' = TRUE
    /\ scrollY' = 0

\* the body styles are cleared; window.scrollTo(0, savedScrollY || 0)
unlockScroll ==
    /\ bodyLocked' = FALSE
    /\ scrollY' = savedScrollY
    /\ UNCHANGED savedScrollY

\* const open
open ==
    IF ~mobile
    THEN UNCHANGED <<drawerOpen, bodyLocked, scrollY, savedScrollY, openedJustNow>>
    ELSE /\ drawerOpen' = TRUE
         /\ lockScroll
         /\ openedJustNow' = TRUE

\* const close
close ==
    /\ drawerOpen' = FALSE
    /\ unlockScroll
    /\ UNCHANGED openedJustNow

\* const toggle
toggle == IF drawerOpen THEN close ELSE open

\* CC_SIDEBAR.open()
drawer_open ==
    /\ open
    /\ UNCHANGED <<mobile, resizeFrame>>
    /\ DrawerOnly

\* CC_SIDEBAR.close(), the Escape key, or on a mobile viewport a click on a
\* link of the sidebar
drawer_close ==
    /\ close
    /\ UNCHANGED <<mobile, resizeFrame>>
    /\ DrawerOnly

\* a pointerdown, touchstart or click on the hamburger, or CC_SIDEBAR.toggle()
drawer_toggle ==
    /\ toggle
    /\ UNCHANGED <<mobile, resizeFrame>>
    /\ DrawerOnly

\* a click on the backdrop, which is shown while the drawer is open
drawer_backdrop_click ==
    /\ drawerOpen
    /\ IF openedJustNow
       THEN UNCHANGED <<drawerOpen, bodyLocked, scrollY, savedScrollY, openedJustNow>>
       ELSE close
    /\ UNCHANGED <<mobile, resizeFrame>>
    /\ DrawerOnly

\* 250 ms pass after the drawer was opened
drawer_debounce_over ==
    /\ openedJustNow
    /\ openedJustNow' = FALSE
    /\ UNCHANGED <<drawerOpen, bodyLocked, scrollY, savedScrollY, mobile, resizeFrame>>
    /\ DrawerOnly

\* the window is resized to a width on either side of 992px: the pending frame
\* is cancelled and a new one requested
drawer_resize(isMobile) ==
    /\ mobile' = isMobile
    /\ resizeFrame' = TRUE
    /\ UNCHANGED <<drawerOpen, bodyLocked, scrollY, savedScrollY, openedJustNow>>
    /\ DrawerOnly

\* the frame of the resize listener: if (!isMobile()) close()
drawer_resize_frame ==
    /\ resizeFrame
    /\ resizeFrame' = FALSE
    /\ IF ~mobile
       THEN close
       ELSE UNCHANGED <<drawerOpen, bodyLocked, scrollY, savedScrollY, openedJustNow>>
    /\ UNCHANGED mobile
    /\ DrawerOnly

\* the user scrolls the page, which the lock prevents
page_scroll(y) ==
    /\ ~bodyLocked
    /\ y # scrollY
    /\ scrollY' = y
    /\ UNCHANGED <<drawerOpen, bodyLocked, savedScrollY, mobile, openedJustNow, resizeFrame>>
    /\ DrawerOnly

InitDrawer ==
    /\ WorkerRegistered({})
    /\ ScannerLoaded(TRUE, TRUE, <<>>)
    /\ PageOptions({}, TRUE, FALSE, 0)
    /\ CcScannerLoaded
    /\ SearchLoaded
    /\ \E isMobile \in BOOLEAN : DrawerLoaded(isMobile)
    /\ RotatorLoaded(THEMES[1], FALSE, FALSE, FALSE)

NextDrawer ==
    \/ drawer_open
    \/ drawer_close
    \/ drawer_toggle
    \/ drawer_backdrop_click
    \/ drawer_debounce_over
    \/ \E isMobile \in BOOLEAN : drawer_resize(isMobile)
    \/ drawer_resize_frame
    \/ \E y \in 0..MaxScroll : page_scroll(y)

SpecDrawer == InitDrawer /\ [][NextDrawer]_vars

\* =====================================================================
\* The theme rotator (static/inventory/dashboard.js)
\* =====================================================================
\* no step of the rotator touches the worker, the scanners, the search box or
\* the drawer
ThemeOnly ==
    Unsettled /\ NoResult /\ UNCHANGED <<swVars, scannerVars, ccVars, searchVars, drawerVars>>

\* THEMES.indexOf(t): the index from 0, -1 when t is not in THEMES
indexOf(t) ==
    IF \E i \in 1..Len(THEMES) : THEMES[i] = t
    THEN (CHOOSE i \in 1..Len(THEMES) : THEMES[i] = t) - 1
    ELSE -1

\* THEMES[(THEMES.indexOf(current)+1)%THEMES.length]
nextTheme(t) == THEMES[((indexOf(t) + 1) % Len(THEMES)) + 1]

\* THEMES[(THEMES.indexOf(current)-1+THEMES.length)%THEMES.length]
prevTheme(t) == THEMES[((indexOf(t) - 1 + Len(THEMES)) % Len(THEMES)) + 1]

NewInterval == CHOOSE n \in 1..(Cardinality(intervals) + 1) : n \notin intervals

\* function stop: if(timer) clearInterval(timer); timer=null
rotatorStop ==
    /\ intervals' = intervals \ {timer}
    /\ timer' = 0

\* function start, with a the value of auto when it is called:
\* if(reduced||!auto) return; stop(); timer=setInterval(next,INTERVAL)
rotatorStart(a) ==
    IF reduced \/ ~a
    THEN UNCHANGED <<timer, intervals>>
    ELSE /\ intervals' = (intervals \ {timer}) \cup {NewInterval}
         /\ timer' = NewInterval

\* function setAuto: auto=v; ...; if(v) start(); else stop()
setAuto(v) ==
    /\ auto' = v
    /\ IF v THEN rotatorStart(v) ELSE rotatorStop

\* click on theme-next: setAuto(false)||next()
theme_next_click ==
    /\ setAuto(FALSE)
    /\ current' = nextTheme(current)
    /\ UNCHANGED <<reduced, pageHidden, pageLoaded>>
    /\ ThemeOnly

\* click on theme-prev: setAuto(false)||prev()
theme_prev_click ==
    /\ setAuto(FALSE)
    /\ current' = prevTheme(current)
    /\ UNCHANGED <<reduced, pageHidden, pageLoaded>>
    /\ ThemeOnly

\* click on theme-toggle-rotate: setAuto(!auto)
theme_auto_click ==
    /\ setAuto(~auto)
    /\ UNCHANGED <<current, reduced, pageHidden, pageLoaded>>
    /\ ThemeOnly

\* visibilitychange: document.hidden ? stop() : start()
theme_visibilitychange ==
    /\ pageHidden' = ~pageHidden
    /\ IF pageHidden' THEN rotatorStop ELSE rotatorStart(auto)
    /\ UNCHANGED <<current, auto, reduced, pageLoaded>>
    /\ ThemeOnly

\* the load event of the window: start()
theme_load ==
    /\ ~pageLoaded
    /\ pageLoaded' = TRUE
    /\ rotatorStart(auto)
    /\ UNCHANGED <<current, auto, reduced, pageHidden>>
    /\ ThemeOnly

\* an interval that was set and not cleared fires: next()
theme_interval ==
    /\ intervals # {}
    /\ current' = nextTheme(current)
    /\ UNCHANGED <<auto, timer, intervals, reduced, pageHidden, pageLoaded>>
    /\ ThemeOnly

InitTheme ==
    /\ WorkerRegistered({})
    /\ ScannerLoaded(TRUE, TRUE, <<>>)
    /\ PageOptions({}, TRUE, FALSE, 0)
    /\ CcScannerLoaded
    /\ SearchLoaded
    /\ DrawerLoaded(TRUE)
    /\ \E storedTheme \in {THEMES[i] : i \in 1..Len(THEMES)} \cup ToggleThemes,
          storedRotate \in BOOLEAN, reducedMotion \in BOOLEAN, isHidden \in BOOLEAN :
          RotatorLoaded(storedTheme, storedRotate, reducedMotion, isHidden)

NextTheme ==
    \/ theme_next_click
    \/ theme_prev_click
    \/ theme_auto_click
    \/ theme_visibilitychange
    \/ theme_load
    \/ theme_interval

SpecTheme == InitTheme /\ [][NextTheme]_vars

\* =====================================================================
\* Properties of the three-partition service worker
\* =====================================================================
StoredOk(response) == response.ok \/ response.type = "opaque"

ResponseTypes == {"basic", "cors", "opaque", "default", "error"}

\* C1: every code path of a GET request resolves the promise given to
\* respondWith to a response; in particular a document request whose network
\* fetch fails, with no snapshot and no cached root document, resolves to the
\* synthetic failure response.
C1_EveryPathResolvesToAResponse ==
    delivery.strategy # "none" =>
        /\ delivery.out.type \in ResponseTypes
        /\ ( /\ delivery.strategy = "networkFirst"
             /\ delivery.net = NetworkError
             /\ delivery.cached = Undefined
             /\ cachesMatch(RootUrl) = {Undefined} ) => delivery.out = ResponseError

\* C2: a document request whose network fetch succeeds is answered with the
\* network response, whatever the cache partitions hold.
C2_DocumentGetsNetworkResponse ==
    ( /\ delivery.strategy = "networkFirst"
      /\ delivery.net # NetworkError ) => delivery.out = delivery.net

\* C2 witness: a network response is delivered for a document while the pages
\* partition holds a different snapshot of it.
C2_Witness ==
    /\ delivery.strategy = "networkFirst"
    /\ delivery.net # NetworkError
    /\ delivery.out = delivery.net
    /\ IsResponse(caches[PAGE_CACHE][delivery.req.url])
    /\ caches[PAGE_CACHE][delivery.req.url] # delivery.out

\* C3 as stated: once a document request was answered with a network response
\* and no write for it is pending, the pages partition holds a snapshot equal
\* to that response, for every response status.
C3_SnapshotForEveryStatus ==
    ( /\ delivery.strategy = "networkFirst"
      /\ delivery.net # NetworkError
      /\ ~\E p \in puts : p.cacheName = PAGE_CACHE /\ p.url = delivery.req.url )
    => caches[PAGE_CACHE][delivery.req.url] = delivery.out

\* C3 amended: a document request answered with an ok or opaque network
\* response leaves a write of exactly that response to the pages partition
\* pending, and when the write completes the partition holds it for the
\* request; a response of any other status is returned and leaves the
\* partition and the pending writes as they were.
C3_SnapshotOfStorableResponse ==
    [][ /\ \A h \in handlers, res \in AllResponses :
              networkFirst_fetched(h, res) =>
                  /\ delivery'.out = res
                  /\ caches' = caches
                  /\ IF StoredOk(res)
                     THEN [cacheName |-> PAGE_CACHE, url |-> h.req.url,
                           response |-> res] \in puts'
                     ELSE puts' = puts
        /\ \A p \in puts :
              cachePut_put(p) => caches'[p.cacheName][p.url] = p.response
      ]_vars

\* C3 witness: the pages partition holds, for the document, the response a
\* fetch of this run returned.
C3_Witness ==
    /\ IsResponse(caches[PAGE_CACHE][OrdersUrl])
    /\ caches[PAGE_CACHE][OrdersUrl].body > 0
    /\ caches[PAGE_CACHE][OrdersUrl] = lastDocOk[OrdersUrl]

C5_OfflineFallsBackToRoot ==
    ( /\ delivery.strategy = "networkFirst"
      /\ delivery.net = NetworkError
      /\ ~IsResponse(caches[PAGE_CACHE][delivery.req.url])
      /\ \E n \in cacheKeys : IsResponse(caches[n][RootUrl]) )
    => /\ IsResponse(delivery.out)
       /\ \E n \in cacheKeys : delivery.out = caches[n][RootUrl]

\* C5 witness: the navigation to /orders gets the precached root document.
C5_Witness ==
    /\ delivery.strategy = "networkFirst"
    /\ delivery.req.mode = "navigate"
    /\ delivery.net = NetworkError
    /\ ~IsResponse(caches[PAGE_CACHE][delivery.req.url])
    /\ delivery.out = caches[STATIC_CACHE][RootUrl]
    /\ IsResponse(delivery.out)

\* C6: a static-asset or CDN request that has a cache entry is answered with
\* the cached snapshot while its network fetch is still in flight; when that
\* fetch succeeds a write of the new response is issued, the write replaces
\* the entry, and so the next request is answered with the new response.
C6_StaleWhileRevalidate ==
    [][ /\ \A h \in handlers :
              ( /\ swr_match(h)
                /\ IsResponse(caches[h.cacheName][h.req.url]) )
              => /\ delivery'.req = h.req
                 /\ delivery'.out = caches[h.cacheName][h.req.url]
                 /\ delivery'.net = Undefined
                 /\ \E g \in handlers' : g.req = h.req /\ g.pc = "fetch"
        /\ \A h \in handlers, res \in AllResponses :
              ( /\ swr_fetched(h, res)
                /\ StoredOk(res) )
              => [cacheName |-> h.cacheName, url |-> h.req.url,
                  response |-> res] \in puts'
        /\ \A p \in puts :
              ( /\ cachePut_put(p)
                /\ p.cacheName \in {STATIC_CACHE, CDN_CACHE} )
              => caches'[p.cacheName][p.url] = p.response
      ]_vars

\* C6 witness: a request for app.css is answered, before its fetch settles,
\* with the response an earlier background fetch wrote over the precached one.
C6_Witness ==
    /\ delivery.strategy = "swr"
    /\ delivery.req.url = AppCssUrl
    /\ delivery.net = Undefined
    /\ delivery.out = caches[STATIC_CACHE][AppCssUrl]
    /\ delivery.out.body > 1
    /\ \E g \in handlers : g.req = delivery.req /\ g.pc = "fetch"

\* C7: every entry of every cache written by a service worker is an ok or an
\* opaque response.
C7_OnlyOkOrOpaqueStored ==
    \A n \in CacheNames, u \in Urls :
        IsResponse(caches[n][u]) => StoredOk(caches[n][u])

\* C8: activation deletes every partition that is not one of the three
\* current ones, deletes none of the three, and claims the clients only
\* after every deletion has completed.
C8_ActivateRemovesOldPartitions ==
    /\ [](claimed => pendingDeletes = {} /\ cacheKeys \subseteq CurrentCaches)
    /\ [][ \A n \in CurrentCaches :
               (swState \in {"installed", "activating"} /\ n \in cacheKeys)
               => (n \in cacheKeys' /\ caches'[n] = caches[n]) ]_vars

\* C8 witness: activation has deleted one old partition, another deletion is
\* pending, the pages partition of the current version is kept and the
\* clients are not claimed yet.
C8_Witness ==
    /\ swState = "activating"
    /\ ~claimed
    /\ pendingDeletes = {"cc-v2-pages"}
    /\ "cc-v2-static" \notin cacheKeys
    /\ PAGE_CACHE \in cacheKeys
    /\ caches[PAGE_CACHE][OrdersUrl] = Stale

\* =====================================================================
\* Properties of the scanner's camera session
\* =====================================================================
\* C9: at most one camera stream is live at a time, and no stream is live
\* while a call of startScan requests a new one.
C9_AtMostOneLiveStream ==
    /\ Cardinality(liveStreams) <= 1
    /\ (starts["temp"] + starts["gum1"] + starts["gum2"] > 0) => liveStreams = {}

\* C10: after stopScan, once every call of startScan that was in flight has
\* settled and until startScan is called again, no camera track is live,
\* also when stopScan was called while startScan waited for the camera.
C10_NoLiveTrackAfterStop ==
    (stopRequested /\ \A pc \in StartPcs : starts[pc] = 0) => liveStreams = {}

\* =====================================================================
\* Properties of detections, the picker and onResult
\* =====================================================================
\* C11: with allowMultiple, when two distinct values are detected within the
\* window, be it in one batch or in two, none of them is passed to onResult
\* automatically: a value handed to onResult by the single-value path is not
\* followed, before any time has passed, by the detection of a different one.
C11_NoAutomaticResultForTwoValues ==
    [][ (allowMultiple /\ resultCall.by = "single")
        => \A i \in 1..Len(seenMap') : seenMap'[i].val = resultCall.value ]_vars

C13_LiveCandidatesAreFresh ==
    \A i \in 1..Len(seenMap) : IsFresh(seenMap[i])

C15_DetectionDiscardedAfterStop ==
    [][ stopRequested
        => /\ resultCall' = NoCall \/ resultCall'.by = "picker"
           /\ picker' = picker \/ picker' = <<>> ]_vars

\* C16: on the native path at most one detect call is in flight and at most
\* one detection loop is alive, whatever the sequence of startScan and
\* stopScan calls.
C16_OneLoopOneDetect ==
    /\ loops["detect"] <= 1
    /\ loops["detect"] + loops["frame"] <= 1

\* C17: while the picker is presented, onResult is called by a pick only: no
\* later frame resolves the session by the single-value path behind it.
C17_NoResultBehindPicker ==
    resultCall.by = "single" => resultCall.picker = <<>>

\* C18: the candidate map is empty right after a session start, right after
\* stopScan and right after a resolution.
C18_CandidatesClearedAtStartStopResult ==
    [][ (startCalls' # startCalls \/ (stopRequested' /\ ~stopRequested) \/ resultCall' # NoCall)
        => seenMap' = <<>> ]_vars

\* C19: when every getUserMedia attempt of a startScan call is rejected (the
\* call settles without any stream having been granted), the promise of
\* startScan is not rejected and the status element shows an error message
\* instead of the progress text.
C19_CameraFailureReportedNotThrown ==
    (settled # NoneSettled /\ hasMediaDevices /\ startCalls = 1 /\ ~stopRequested /\ liveStreams = {})
        => (settled = "resolved" /\ statusText # "Starting camera")

\* =====================================================================
\* Properties of cc-scanner.js
\* =====================================================================
\* C20: while the page is hidden no camera stream is open and the capture
\* session is not running, also when the page became hidden while a start
\* was awaiting the camera.
C20_NothingOpenWhileHidden ==
    hidden => (ccLive = {} /\ ~ccScanning)

\* =====================================================================
\* Properties of the three-partition router: pass-through, default class,
\* failures of the background fetch and of the cache write
\* =====================================================================
\* C21: for a request whose method is not GET the fetch listener returns
\* without respondWith: no strategy is started for it, nothing is delivered
\* for it, and the step leaves the cache partitions, the pending cache writes
\* and the handlers of other requests as they were.
C21_NonGetPassesThrough ==
    /\ [](\A h \in handlers : h.req.method = "GET")
    /\ [](delivery # NoDelivery => delivery.req.method = "GET")
    /\ [][ \A req \in Requests :
             (req.method # "GET" /\ FetchEvent(req))
                => /\ passedThrough' = req
                   /\ UNCHANGED <<handlers, puts, caches, cacheKeys>> ]_vars

\* a POST to /orders has just passed through while the pages partition holds
\* a snapshot of /orders
C21_Witness ==
    /\ passedThrough.method = "POST"
    /\ passedThrough.url = OrdersUrl
    /\ IsResponse(caches[PAGE_CACHE][OrdersUrl])
    /\ handlers = {}

\* C22: a GET request of the default class gets the network response when
\* the fetch succeeds; when the fetch fails it gets a snapshot some partition
\* holds for its url, or the synthetic failure response when no partition
\* holds one; no step of its handler modifies a partition or starts a write.
C22_DefaultNetworkThenAnyCache ==
    /\ [](delivery.strategy = "default"
            => LET url == delivery.req.url
                   holders == {n \in cacheKeys : IsResponse(caches[n][url])}
               IN  IF delivery.net # NetworkError
                   THEN delivery.out = delivery.net
                   ELSE IF holders # {}
                   THEN \E n \in holders : delivery.out = caches[n][url]
                   ELSE delivery.out = ResponseError)
    /\ [][ (\E h \in handlers : h.strategy = "default" /\ h \notin handlers')
             => UNCHANGED <<caches, cacheKeys, puts>> ]_vars

\* the fetch of a default-class request failed and the snapshot of the pages
\* partition was delivered
C22_Witness ==
    /\ delivery.strategy = "default"
    /\ delivery.net = NetworkError
    /\ IsResponse(delivery.out)
    /\ delivery.out = caches[PAGE_CACHE][delivery.req.url]
    /\ delivery.out.type = "basic"

\* the fetch of a default-class request failed, no partition held a
\* snapshot, and the synthetic failure response was delivered
C22_WitnessNoSnapshot ==
    /\ delivery.strategy = "default"
    /\ delivery.net = NetworkError
    /\ delivery.out = ResponseError

\* C23: under stale-while-revalidate a failure of the fetch does not reach a
\* caller that was given a cached snapshot: whenever a snapshot was found it
\* is what is delivered, the failure of the background fetch delivers nothing
\* more and leaves the partitions and the pending writes as they were; with
\* no snapshot, a failed fetch delivers the synthetic failure response.
C23_SwrFetchFailureSwallowed ==
    /\ [](delivery.strategy = "swr" /\ IsResponse(delivery.cached)
            => delivery.out = delivery.cached)
    /\ [][ \A h \in handlers :
             (h.strategy = "swr" /\ h.pc = "fetch" /\ swr_failed(h))
                => /\ UNCHANGED <<caches, cacheKeys, puts>>
                   /\ IF IsResponse(h.cached)
                      THEN h.responded /\ delivery' = NoDelivery
                      ELSE /\ delivery'.req = h.req
                           /\ delivery'.net = NetworkError
                           /\ delivery'.out = ResponseError ]_vars

\* the caller of a static asset has been given the cached snapshot, which
\* the partition still holds, while the background fetch has yet to settle
\* (its failure is the step the property is about)
C23_Witness ==
    \E h \in handlers :
        /\ h.strategy = "swr" /\ h.pc = "fetch" /\ h.responded
        /\ IsResponse(h.cached)
        /\ caches[h.cacheName][h.req.url] = h.cached
        /\ delivery = NoDelivery

\* with no snapshot the failed fetch has delivered the synthetic failure response
C23_WitnessNoSnapshot ==
    /\ delivery.strategy = "swr"
    /\ delivery.net = NetworkError
    /\ delivery.cached = Undefined
    /\ delivery.out = ResponseError

\* C24: the response delivered for a request does not depend on the cache
\* write it triggers: network-first and stale-while-revalidate deliver in
\* the step that calls cachePut, before the write settles, and the settling
\* of a write, by success or by failure, delivers nothing and touches no
\* handler.
C24_WriteFailureNeverSurfaces ==
    /\ [][ \A p \in puts :
             (cachePut_threw(p) \/ cachePut_put(p))
                => (delivery' = NoDelivery /\ handlers' = handlers) ]_vars
    /\ [][ \A h \in handlers, res \in AllResponses :
             (networkFirst_fetched(h, res) \/ swr_fetched(h, res))
                => /\ puts' = puts \cup cachePut(h.cacheName, h.req, res)
                   /\ h \notin handlers'
                   /\ h.strategy = "networkFirst" => delivery'.out = res
                   /\ (h.strategy = "swr" /\ ~h.responded) => delivery'.out = res ]_vars

\* the latest network response, an ok document, was delivered and its cache
\* write failed: no write is pending and the pages partition does not hold it
C24_Witness ==
    /\ puts = {} /\ handlers = {}
    /\ lastDocOk[OrdersUrl].body = netSeq
    /\ lastDocOk[OrdersUrl].ok
    /\ caches[PAGE_CACHE][OrdersUrl] # lastDocOk[OrdersUrl]
    /\ delivery = NoDelivery

\* C25: at install, the assets of the shell list whose precache fetch
\* succeeded are stored in the static partition, also when the fetch of
\* another asset of the list failed.
C25_PrecacheIsBestEffort ==
    [][ \A outcome \in [1..Len(PRECACHE_ASSETS) -> {"ok", "fail"}] :
          ( /\ swState = "precaching"
            /\ swState' # swState
            /\ caches' = [caches EXCEPT ![STATIC_CACHE] =
                              addAll(@, PRECACHE_ASSETS, outcome, netSeq + 1)] )
          => \A i \in 1..Len(PRECACHE_ASSETS) :
                outcome[i] = "ok"
                   => caches'[STATIC_CACHE][PRECACHE_ASSETS[i]].body = netSeq + 1 ]_vars

\* ---------------------------------------------------------------------
\* C30: when two stale-while-revalidate requests for the same key are in
\* flight at the same time, every background write that completes leaves the
\* entry of the key equal, in full, to the response of that write's fetch and
\* touches no other entry, and nothing but a completing write changes an
\* entry: once both writes have completed the entry is the response of the
\* write that completed last, never a mixture of the two.
\* ---------------------------------------------------------------------
C30_LastCompletedWriteWins ==
    /\ [][\A p \in puts :
            cachePut_put(p) =>
                caches' = [caches EXCEPT ![p.cacheName][p.url] = p.response]]_vars
    /\ [][caches' # caches =>
            \E p \in puts : p \notin puts' /\ caches'[p.cacheName][p.url] = p.response]_vars

\* the write of the later fetch has completed and the write of the earlier
\* fetch, for the same key, is still to complete
C30_Witness ==
    \E p \in puts :
        /\ p.url = AppCssUrl /\ p.cacheName = STATIC_CACHE
        /\ p.response.body = 1
        /\ caches[STATIC_CACHE][AppCssUrl].body = 2

\* ---------------------------------------------------------------------
\* C28: in a browser without navigator.mediaDevices.getUserMedia a call of
\* startScan writes the "not supported" status and returns at once; no stream
\* is ever requested or open, no detection loop runs and the fallback library
\* is neither loaded nor decoding.
\* ---------------------------------------------------------------------
C28_NoCameraApiIsTerminal ==
    /\ [](~hasMediaDevices =>
            /\ \A pc \in StartPcs : starts[pc] = 0
            /\ \A pc \in LoopPcs : loops[pc] = 0
            /\ liveStreams = {} /\ stream = 0 /\ track = 0
            /\ decodes = {} /\ zxingControls = 0
            /\ startCalls > 0 => statusText = "Camera not supported in this browser.")
    /\ [][(startScan_call /\ ~hasMediaDevices) => settled' = "resolved"]_vars

\* startScan was called in such a browser and has returned
C28_Witness ==
    /\ ~hasMediaDevices
    /\ startCalls > 0
    /\ settled = "resolved"
    /\ statusText = "Camera not supported in this browser."

\* ---------------------------------------------------------------------
\* C29: when the load of the fallback library fails, the failure is written
\* to the status element and no open stream and no running decode is left.
\* ---------------------------------------------------------------------
C29_LibraryLoadFailureCleansUp ==
    [][zxing_loaded(FALSE) =>
          /\ statusText' # "Loading scanner"
          /\ liveStreams' = {}
          /\ stream' = 0
          /\ decodes' = {}]_vars

\* ---------------------------------------------------------------------
\* C26: switchCamera binds the device that follows, in the enumerated list
\* and wrapping from the last to the first, the device that was bound when it
\* was called; the tracks of the old stream are stopped before the new stream
\* is requested; with no video input it returns false and opens nothing.
\* ---------------------------------------------------------------------
\* the device after deviceId in the list, the first one after the last
Following(list, deviceId) ==
    LET i == CHOOSE k \in 1..Len(list) : list[k].deviceId = deviceId
    IN  list[(i % Len(list)) + 1].deviceId

C26_BindsFollowingDevice ==
    [][\A c \in switches :
          (switchCamera_granted(c) /\ c.from # "null")
              => boundDevice' = Following(cams, c.from)]_vars

C26_OldStreamStoppedFirst ==
    [][switchCamera_call =>
          /\ stream # 0 => stream \notin liveStreams'
          /\ stream' = 0 /\ track' = 0
          /\ liveStreams' \subseteq liveStreams
          /\ \A c \in switches' \ switches : c.pc = "enumerate"]_vars

C26_NoVideoInputReturnsFalse ==
    [][\A c \in switches :
          (switchCamera_enumerated(c) /\ cams = <<>>)
              => /\ returned' = SwitchReturn(FALSE)
                 /\ liveStreams' = liveStreams
                 /\ stream' = stream
                 /\ c \notin switches']_vars

C26_SwitchCamera ==
    /\ C26_OldStreamStoppedFirst
    /\ C26_NoVideoInputReturnsFalse
    /\ C26_BindsFollowingDevice

\* ---------------------------------------------------------------------
\* C27: a tryTorch promise never rejects; it resolves to true exactly when
\* the track was set and live, its capabilities listed a torch and
\* applyConstraints resolved, and to false when there was no track, no torch
\* capability, or the call failed.
\* ---------------------------------------------------------------------
C27_TorchIsBestEffort ==
    returned.fn = "tryTorch" =>
        /\ returned.value \in BOOLEAN
        /\ returned.value = TRUE <=> (returned.live /\ returned.torch /\ returned.applied)

\* the torch of a live back camera was switched
C27_Witness ==
    /\ returned.fn = "tryTorch"
    /\ returned.value = TRUE
    /\ returned.live /\ returned.torch /\ returned.applied

\* applyConstraints rejected and tryTorch resolved to false
C27_WitnessRejected ==
    /\ returned.fn = "tryTorch"
    /\ returned.value = FALSE
    /\ returned.torch /\ ~returned.applied

\* getCapabilities threw and tryTorch resolved to false
C27_WitnessThrown ==
    /\ returned.fn = "tryTorch"
    /\ returned.value = FALSE
    /\ returned.live /\ ~returned.torch

\* ---------------------------------------------------------------------
\* C31: requests are classified by the first matching test in the order
\* non-GET, document, same-origin static, allow-listed CDN, default: a GET
\* that is a navigation or accepts HTML is handled network-first against the
\* pages partition whatever its URL, a non-GET request gets no handler, and a
\* fetch event of a GET request starts one handler of one strategy.
\* ---------------------------------------------------------------------
C31_Class(req) ==
    IF req.mode = "navigate" \/ (\E i \in 1..Len(req.accept) : req.accept[i] = "text/html")
    THEN <<"networkFirst", PAGE_CACHE>>
    ELSE IF req.url.host = SelfHost /\ Len(req.url.path) >= 2 /\ req.url.path[1] = "static"
    THEN <<"swr", STATIC_CACHE>>
    ELSE IF req.url.host = CdnHost
    THEN <<"swr", CDN_CACHE>>
    ELSE <<"default", "none">>

C31_FirstMatchWins ==
    /\ [](\A h \in handlers :
            /\ h.req.method = "GET"
            /\ <<h.strategy, h.cacheName>> = C31_Class(h.req))
    /\ [][\A req \in RouteRequests :
            FetchEvent(req) =>
                IF req.method = "GET"
                THEN /\ \E h \in handlers' : h.req = req /\ h.pc \in {"match", "fetch"}
                     /\ Cardinality(handlers' \ handlers) <= 1
                     /\ \A h \in handlers' \ handlers : h.req = req
                ELSE handlers' = handlers]_vars

\* an HTML request to a CDN host is being handled network-first, after a
\* navigation to a URL under /static/ was stored in the pages partition
C31_Witness ==
    /\ \E h \in handlers :
          h.req.url = CdnUrl /\ h.strategy = "networkFirst" /\ h.cacheName = PAGE_CACHE
    /\ IsResponse(caches[PAGE_CACHE][AppCssUrl])

\* ---------------------------------------------------------------------
\* C32: during startup the throwaway stream has no live track left when the
\* real stream is requested; when the request made after the selection fails
\* (the device-specific one, or the generic one made when the selection gave
\* no device) exactly one further request, with the generic constraint, is
\* made, and when that one fails none.
\* ---------------------------------------------------------------------
C32_TempReleasedFirst ==
    [][\A granted \in BOOLEAN :
          getBackCameraStream_temp(granted) =>
              /\ liveStreams' = liveStreams
              /\ starts'["gum1"] = starts["gum1"]
              /\ starts'["enumerate"] = starts["enumerate"] + 1]_vars

C32_WitnessSecondGeneric ==
    /\ getBestCameraDeviceId(cams) = "null"
    /\ starts["gum2"] > 0

\* ---------------------------------------------------------------------
\* C33: in cc-scanner, once onDetect has run no further onDetect happens until
\* start is called again, detect calls still in flight or not: the form is
\* submitted at most once between two calls of start.
\* ---------------------------------------------------------------------
C33_OneSubmitPerStart == ccSubmits <= 1

\* ---------------------------------------------------------------------
\* C34: in cc-scanner, overlapping calls of start never leave more than one
\* camera stream open or more than one animation-frame loop running: a start
\* issued while an earlier one has not finished requests no camera.
\* ---------------------------------------------------------------------
C34_OverlappingStartsAreNoOps ==
    /\ [](Cardinality(ccLive) <= 1 /\ ccFrames <= 1)
    /\ [][(cc_start /\ \E pc \in CcPcs : ccStarts[pc] > 0) => ccStarts' = ccStarts]_vars

\* ---------------------------------------------------------------------
\* C35: in the cc-v4 worker, handling a request that is HTML or carries the
\* nocache parameter never writes to the cache; the request is answered with
\* the network response whenever the fetch succeeds, and only when the fetch
\* fails with a cached match or, when there is none, the 503 response.
\* ---------------------------------------------------------------------
C35_HtmlAndBypassNeverCached ==
    /\ [](\A h \in handlers : (isHTML(h.req) \/ bypass(h.req.url)) <=> h.strategy = "html")
    /\ [](delivery.strategy = "html" =>
            IF delivery.net # NetworkError
            THEN delivery.out = delivery.net
            ELSE delivery.out = (IF IsResponse(delivery.cached) THEN delivery.cached
                                 ELSE Offline503))
    /\ [][\A h \in handlers : \A res \in AllResponsesV4 :
            (h.strategy = "html" /\
             (V4_html_fetched(h, res) \/ V4_html_failed(h) \/ V4_html_match(h)))
                => /\ puts' = puts
                   /\ caches' = caches
                   /\ cacheKeys' = cacheKeys]_vars
    /\ [][\A h \in handlers :
            V4_html_match(h) =>
                delivery'.cached \in cachesMatchReq(h.req)]_vars

\* a stylesheet request with ?nocache was answered from the network while the
\* cache holds nothing for it
C35_Witness ==
    /\ delivery.strategy = "html"
    /\ bypass(delivery.req.url)
    /\ ~isHTML(delivery.req)
    /\ delivery.net.ok /\ delivery.out = delivery.net
    /\ \A n \in CacheNames : ~IsResponse(caches[n][delivery.req.url])
    /\ puts = {}

\* the fetch of a document failed and the answer is the 503 response
C35_WitnessOffline ==
    /\ delivery.strategy = "html"
    /\ isHTML(delivery.req)
    /\ delivery.net = NetworkError
    /\ delivery.out = Offline503

\* ---------------------------------------------------------------------
\* C36: in the global search box the results shown belong to the latest input
\* value, and after the input was cleared the box stays hidden and empty until
\* the next non-empty input, whatever requests were in flight.
\* ---------------------------------------------------------------------
C36_ClearedStaysEmpty == qValue = "" => (boxHidden /\ boxHTML = "")

\* the part of C36 that holds: the response rendered is the one of the latest
\* request made, never a superseded one
C36_SupersededNeverRendered ==
    [][\A c \in searches : search_rendered(c) => c.id = inFlight]_vars

\* ---------------------------------------------------------------------
\* C37: the body scroll lock is on exactly when the drawer is open, and a
\* close on an already closed drawer leaves the window scroll position
\* unchanged.
\* ---------------------------------------------------------------------
C37_LockedIffOpen == bodyLocked <=> drawerOpen

C37_CloseOnClosedKeepsScroll ==
    [][(~drawerOpen /\ (drawer_close \/ drawer_resize_frame)) => scrollY' = scrollY]_vars

C37_DrawerScrollLock == []C37_LockedIffOpen /\ C37_CloseOnClosedKeepsScroll

\* ---------------------------------------------------------------------
\* C38: in the theme rotator at most one rotation interval exists, an interval
\* exists only while auto-rotation is on and the page is visible, a manual next
\* or prev turns auto-rotation off, and the current theme is always one of the
\* three configured themes, next and prev being inverse cyclic steps.
\* ---------------------------------------------------------------------
C38_AtMostOneTimer == Cardinality(intervals) <= 1

C38_TimerOnlyWhileAutoAndVisible == intervals # {} => (auto /\ ~pageHidden)

C38_ManualStepTurnsAutoOff ==
    [][(theme_next_click \/ theme_prev_click) => (~auto' /\ intervals' = {})]_vars

C38_CurrentIsConfigured == \E i \in 1..Len(THEMES) : THEMES[i] = current

\* a page loaded in a background tab with rotation stored as on
C38_LoadedHiddenWithAuto == pageLoaded /\ pageHidden /\ auto /\ ~reduced

C38_NextPrevInverse ==
    \A i \in 1..Len(THEMES) :
        /\ prevTheme(nextTheme(THEMES[i])) = THEMES[i]
        /\ nextTheme(prevTheme(THEMES[i])) = THEMES[i]
        /\ nextTheme(THEMES[i]) # THEMES[i]

====
